---- MODULE Spec2Model ----
(***************************************************************************)
(* A model of spaceform: four-lane vectors (scalar, x86 and wasm           *)
(* backends), the row-major 4x4 Matrix built on them, Quaternion, and the  *)
(* Point, Direction and Transform types of the crate root.                 *)
(*                                                                         *)
(* Lanes hold f32 values.  They are modelled as exact extended rationals   *)
(* <<n, d>>: d > 0 is the finite value n/d in lowest terms, <<1, 0>> and   *)
(* <<-1, 0>> are +infinity and -infinity, <<0, 0>> is NaN.  Rounding and   *)
(* the sign of zero are not modelled; division by zero yields an infinity  *)
(* or NaN as IEEE-754 does.                                                *)
(***************************************************************************)
EXTENDS Integers, Sequences, FiniteSets, TLC

VARIABLES backend, op, ma, mb, va, vb, qa, qb, sidx, idx, res, calls, ta, tb, depth, factor,
          debug_assertions

vars == <<backend, op, ma, mb, va, vb, qa, qb, sidx, idx, res, calls, ta, tb, depth, factor,
          debug_assertions>>

Backends == {"scalar", "x86", "wasm"}

----------------------------------------------------------------------------
(* f32 arithmetic on extended rationals *)

Abs(n) == IF n < 0 THEN -n ELSE n

Sign(n) == IF n < 0 THEN -1 ELSE IF n > 0 THEN 1 ELSE 0

RECURSIVE Gcd(_, _)
Gcd(a, b) == IF b = 0 THEN a ELSE Gcd(b, a % b)

Norm(n, d) ==
    IF d = 0 THEN <<Sign(n), 0>>
    ELSE LET g == Gcd(Abs(n), Abs(d))
             s == IF d < 0 THEN -1 ELSE 1
         IN  <<(s * n) \div g, (s * d) \div g>>

F(i) == <<i, 1>>

NaN == <<0, 0>>

AddQ(n1, d1, n2, d2, g) == Norm(n1 * (d2 \div g) + n2 * (d1 \div g), (d1 \div g) * d2)

FAdd(a, b) ==
    IF a[2] = 0 /\ b[2] = 0
    THEN (IF a[1] = b[1] THEN a ELSE NaN)
    ELSE AddQ(a[1], a[2], b[1], b[2], Gcd(a[2], b[2]))

FNeg(a) == <<-a[1], a[2]>>

FSub(a, b) == FAdd(a, FNeg(b))

FMul(a, b) == Norm(a[1] * b[1], a[2] * b[2])

FDiv(a, b) == Norm(a[1] * b[2], a[2] * b[1])

FAbs(a) == <<Abs(a[1]), a[2]>>

\* a < b; every comparison with NaN is false
FLt(a, b) ==
    /\ a # NaN
    /\ b # NaN
    /\ a # b
    /\ IF a[2] = 0 THEN a[1] < 0
       ELSE IF b[2] = 0 THEN b[1] > 0
       ELSE a[1] * b[2] < b[1] * a[2]

FGt(a, b) == FLt(b, a)

\* the largest r in lo..hi with r * r <= n
RECURSIVE ISqrtIn(_, _, _)
ISqrtIn(n, lo, hi) ==
    IF lo >= hi THEN lo
    ELSE IF ((lo + hi + 1) \div 2) * ((lo + hi + 1) \div 2) <= n
         THEN ISqrtIn(n, (lo + hi + 1) \div 2, hi)
         ELSE ISqrtIn(n, lo, ((lo + hi + 1) \div 2) - 1)

\* 46340 is the largest root whose square fits the integers of the checker
ISqrt(n) == ISqrtIn(n, 0, 46340)

IsSquare(n) == ISqrt(n) * ISqrt(n) = n

\* n/d brought to a denominator of at most 10000
Coarse(a) ==
    IF a[2] <= 10000 THEN a
    ELSE <<a[1] \div ((a[2] \div 10000) + 1), a[2] \div ((a[2] \div 10000) + 1)>>

\* f32::sqrt: NaN below zero; the exact root when n/d has a rational one,
\* otherwise the root rounded down to two decimal places (to an integer
\* when the numerator is large)
FSqrt(a) ==
    IF a = NaN \/ a[1] < 0 THEN NaN
    ELSE IF a[2] = 0 THEN a
    ELSE IF IsSquare(a[1]) /\ IsSquare(a[2]) THEN <<ISqrt(a[1]), ISqrt(a[2])>>
    ELSE IF Coarse(a)[1] <= 200000
         THEN Norm(ISqrt((Coarse(a)[1] * 10000) \div Coarse(a)[2]), 100)
         ELSE F(ISqrt(Coarse(a)[1] \div Coarse(a)[2]))

\* An angle in radians is held as the point <<cos, sin>> it marks on the unit
\* circle, so that cos and sin of it are exact.
NaNAngle == <<NaN, NaN>>

\* f32::acos: an angle in [0, pi], NaN outside [-1, 1]
FAcos(c) ==
    IF c = NaN \/ FGt(FAbs(c), F(1)) THEN NaNAngle
    ELSE <<c, FSqrt(FSub(F(1), FMul(c, c)))>>

FCos(theta) == theta[1]

FSin(theta) == theta[2]

\* theta * t for theta in [0, pi] and t in AngleFactors
AngleTimes(theta, t) ==
    IF theta = NaNAngle \/ t = NaN THEN NaNAngle
    ELSE CASE t = F(0) -> <<F(1), F(0)>>
           [] t = F(1) -> theta
           [] t = F(-1) -> <<theta[1], FNeg(theta[2])>>
           [] t = F(2) -> <<FSub(FMul(theta[1], theta[1]), FMul(theta[2], theta[2])),
                            FMul(F(2), FMul(theta[1], theta[2]))>>
           [] t = <<1, 2>> -> <<FSqrt(FDiv(FAdd(F(1), theta[1]), F(2))),
                                FSqrt(FDiv(FSub(F(1), theta[1]), F(2)))>>

AngleFactors == {F(0), F(1), F(-1), F(2), <<1, 2>>}

----------------------------------------------------------------------------
(* bit operations on the u32 / i32 shuffle masks *)

RECURSIVE BitOr(_, _)
BitOr(a, b) ==
    IF a = 0 THEN b
    ELSE IF b = 0 THEN a
    ELSE (IF a % 2 = 1 \/ b % 2 = 1 THEN 1 ELSE 0) + 2 * BitOr(a \div 2, b \div 2)

\* core::arch::x86_64::_MM_SHUFFLE(z, y, x, w)
MM_SHUFFLE(z, y, x, w) == BitOr(BitOr(z * 64, y * 16), BitOr(x * 4, w))

is_shuffle_arg(x, y, z, w) == x < 4 /\ y < 4 /\ z < 4 /\ w < 4

----------------------------------------------------------------------------
(* lanes: a register or struct of four f32, lane i stored at position i+1 *)

Lane(v, i) == v[i + 1]

\* _mm_set_ps(e3, e2, e1, e0): e0 is the lowest lane
mm_set_ps(e3, e2, e1, e0) == <<e0, e1, e2, e3>>

mm_cvtss_f32(a) == Lane(a, 0)

\* _mm_shuffle_ps(a, b, imm8): two lanes of a selected by the low four bits,
\* two lanes of b selected by the high four bits
mm_shuffle_ps(a, b, imm) ==
    << Lane(a, imm % 4), Lane(a, (imm \div 4) % 4),
       Lane(b, (imm \div 16) % 4), Lane(b, (imm \div 64) % 4) >>

mm_movehl_ps(a, b) == <<Lane(b, 2), Lane(b, 3), Lane(a, 2), Lane(a, 3)>>

\* u32x4_shuffle::<I0, I1, I2, I3>(a, b): indices 0..7 into the lanes of a then b
u32x4_shuffle(i0, i1, i2, i3, a, b) ==
    LET cat == a \o b
    IN  <<Lane(cat, i0), Lane(cat, i1), Lane(cat, i2), Lane(cat, i3)>>

f32x4_extract_lane(i, a) == Lane(a, i)

\* _mm_set_ss(val): val in the lowest lane, the upper three lanes zeroed
mm_set_ss(val) == <<val, F(0), F(0), F(0)>>

\* _mm_move_ss(a, b): the lowest lane of b, the upper three lanes of a
mm_move_ss(a, b) == <<Lane(b, 0), Lane(a, 1), Lane(a, 2), Lane(a, 3)>>

\* f32x4_replace_lane::<I>(a, val)
f32x4_replace_lane(i, a, val) ==
    <<IF i = 0 THEN val ELSE Lane(a, 0), IF i = 1 THEN val ELSE Lane(a, 1),
      IF i = 2 THEN val ELSE Lane(a, 2), IF i = 3 THEN val ELSE Lane(a, 3)>>

\* a == b on f32: false when either side is NaN
FEq(a, b) == a # NaN /\ b # NaN /\ a = b

\* the 32-bit mask a lane comparison yields, as its four bytes
LaneMask(c) == IF c THEN <<255, 255, 255, 255>> ELSE <<0, 0, 0, 0>>

\* _mm_cmpeq_ps(a, b): every lane all ones where equal, zero elsewhere
\* (_mm_castps_si128 keeps the bits)
mm_cmpeq_ps(a, b) ==
    << LaneMask(FEq(Lane(a, 0), Lane(b, 0))), LaneMask(FEq(Lane(a, 1), Lane(b, 1))),
       LaneMask(FEq(Lane(a, 2), Lane(b, 2))), LaneMask(FEq(Lane(a, 3), Lane(b, 3))) >>

\* _mm_movemask_epi8(a): the most significant bit of byte k of lane i, at bit
\* 4 * i + k of the result
mm_movemask_epi8(a) ==
    LET bit(i, k) == (a[i + 1][k + 1] \div 128) * 2^(4 * i + k)
        lane(i) == bit(i, 0) + bit(i, 1) + bit(i, 2) + bit(i, 3)
    IN  lane(0) + lane(1) + lane(2) + lane(3)

\* f32x4_eq(a, b): every lane all ones where equal, zero elsewhere
f32x4_eq(a, b) ==
    << LaneMask(FEq(Lane(a, 0), Lane(b, 0))), LaneMask(FEq(Lane(a, 1), Lane(b, 1))),
       LaneMask(FEq(Lane(a, 2), Lane(b, 2))), LaneMask(FEq(Lane(a, 3), Lane(b, 3))) >>

\* v128_any_true(a): some bit of a is set
v128_any_true(a) == \E i \in 1..4, k \in 1..4 : a[i][k] # 0

mm_setzero_ps == <<F(0), F(0), F(0), F(0)>>

\* _mm_set1_ps(a): a broadcast to the four lanes
mm_set1_ps(a) == <<a, a, a, a>>

f32x4_splat(a) == <<a, a, a, a>>

\* nearly_equal with a tolerance that admits a difference of exactly epsilon
nearly_equal_inclusive(lhs, rhs, epsilon) == ~FGt(FAbs(FSub(rhs, lhs)), epsilon)

\* base::nearly_equal
nearly_equal(lhs, rhs, epsilon) == FLt(FAbs(FSub(rhs, lhs)), epsilon)

----------------------------------------------------------------------------
(* outcome of a call: a value, a panic (fatal at run time), or a rejection
   by the compiler *)

NoResult == [status |-> "none", val |-> <<>>]

Ok(v) == [status |-> "ok", val |-> v]

Panic == [status |-> "panic", val |-> <<>>]

CompileError == [status |-> "compile_error", val |-> <<>>]

----------------------------------------------------------------------------
(* base::Vector, scalar backend (base/vector/scalar.rs) *)

Scalar_new(x, y, z, w) == <<x, y, z, w>>

Scalar_add(a, b) == <<FAdd(a[1], b[1]), FAdd(a[2], b[2]), FAdd(a[3], b[3]), FAdd(a[4], b[4])>>

Scalar_sub(a, b) == <<FSub(a[1], b[1]), FSub(a[2], b[2]), FSub(a[3], b[3]), FSub(a[4], b[4])>>

Scalar_mul(a, b) == <<FMul(a[1], b[1]), FMul(a[2], b[2]), FMul(a[3], b[3]), FMul(a[4], b[4])>>

Scalar_div(a, b) == <<FDiv(a[1], b[1]), FDiv(a[2], b[2]), FDiv(a[3], b[3]), FDiv(a[4], b[4])>>

\* data = from_raw_parts(&self, 4); Self { x: data[X], y: data[Y], z: data[Z], w: data[W] }
Scalar_shuffle(v, X, Y, Z, W) == <<Lane(v, X), Lane(v, Y), Lane(v, Z), Lane(v, W)>>

Scalar_shuffle_merge(vec1, vec2, X, Y, Z, W) ==
    <<Lane(vec1, X), Lane(vec1, Y), Lane(vec2, Z), Lane(vec2, W)>>

\* A call of shuffle / shuffle_merge with const arguments X, Y, Z, W.  The
\* scalar functions carry no where clause: the call compiles for every index
\* and the fields x, y, z, w are read in order from 4-element slices, the
\* first index outside the slice panicking.  reads counts the lane reads done.
Scalar_shuffle_call(v, X, Y, Z, W) ==
    CASE X >= 4 -> [status |-> "panic", val |-> <<>>, reads |-> 0]
      [] X < 4 /\ Y >= 4 -> [status |-> "panic", val |-> <<>>, reads |-> 1]
      [] X < 4 /\ Y < 4 /\ Z >= 4 -> [status |-> "panic", val |-> <<>>, reads |-> 2]
      [] X < 4 /\ Y < 4 /\ Z < 4 /\ W >= 4 -> [status |-> "panic", val |-> <<>>, reads |-> 3]
      [] OTHER -> [status |-> "ok", val |-> Scalar_shuffle(v, X, Y, Z, W), reads |-> 4]

Scalar_shuffle_merge_call(vec1, vec2, X, Y, Z, W) ==
    CASE X >= 4 -> [status |-> "panic", val |-> <<>>, reads |-> 0]
      [] X < 4 /\ Y >= 4 -> [status |-> "panic", val |-> <<>>, reads |-> 1]
      [] X < 4 /\ Y < 4 /\ Z >= 4 -> [status |-> "panic", val |-> <<>>, reads |-> 2]
      [] X < 4 /\ Y < 4 /\ Z < 4 /\ W >= 4 -> [status |-> "panic", val |-> <<>>, reads |-> 3]
      [] OTHER -> [status |-> "ok", val |-> Scalar_shuffle_merge(vec1, vec2, X, Y, Z, W),
                   reads |-> 4]

\* Scalar_get asserting idx <= 4 and reading past the fourth lane unchecked
Scalar_get_off_by_one(v, i) == IF i <= 4 THEN Ok(Lane(v, i % 4)) ELSE Panic

\* assert!(idx < 4, ...); from_raw_parts(&self, 4)[idx]
Scalar_get(v, i) == IF i < 4 THEN Ok(Lane(v, i)) ELSE Panic

Scalar_hsum(v) == FAdd(FAdd(FAdd(v[1], v[2]), v[3]), v[4])

\* derive(PartialEq): every field equal
Scalar_eq(a, b) == FEq(a[1], b[1]) /\ FEq(a[2], b[2]) /\ FEq(a[3], b[3]) /\ FEq(a[4], b[4])

Scalar_default == <<F(0), F(0), F(0), F(0)>>

\* impl Mul<f32>: every field times rhs
Scalar_mul_f32(a, rhs) == <<FMul(a[1], rhs), FMul(a[2], rhs), FMul(a[3], rhs), FMul(a[4], rhs)>>

\* impl Div<f32> for Vector
Scalar_div_f32(a, rhs) == <<FDiv(a[1], rhs), FDiv(a[2], rhs), FDiv(a[3], rhs), FDiv(a[4], rhs)>>

Scalar_adj_add(lhs, rhs) ==
    <<FAdd(lhs[1], lhs[2]), FAdd(lhs[3], lhs[4]), FAdd(rhs[1], rhs[2]), FAdd(rhs[3], rhs[4])>>

Scalar_adj_sub(lhs, rhs) ==
    <<FSub(lhs[1], lhs[2]), FSub(lhs[3], lhs[4]), FSub(rhs[1], rhs[2]), FSub(rhs[3], rhs[4])>>

Scalar_add_sub(lhs, rhs) ==
    <<FSub(lhs[1], rhs[1]), FAdd(lhs[2], rhs[2]), FSub(lhs[3], rhs[3]), FAdd(lhs[4], rhs[4])>>

\* self.x = val
Scalar_set_x(v, val) == <<val, v[2], v[3], v[4]>>

\* self.y = val
Scalar_set_y(v, val) == <<v[1], val, v[3], v[4]>>

\* self.z = val
Scalar_set_z(v, val) == <<v[1], v[2], val, v[4]>>

\* self.w = val
Scalar_set_w(v, val) == <<v[1], v[2], v[3], val>>


----------------------------------------------------------------------------
(* base::Vector, x86 backend (base/vector/x86.rs) *)

mm_add_ps(a, b) == <<FAdd(a[1], b[1]), FAdd(a[2], b[2]), FAdd(a[3], b[3]), FAdd(a[4], b[4])>>

mm_sub_ps(a, b) == <<FSub(a[1], b[1]), FSub(a[2], b[2]), FSub(a[3], b[3]), FSub(a[4], b[4])>>

mm_mul_ps(a, b) == <<FMul(a[1], b[1]), FMul(a[2], b[2]), FMul(a[3], b[3]), FMul(a[4], b[4])>>

mm_div_ps(a, b) == <<FDiv(a[1], b[1]), FDiv(a[2], b[2]), FDiv(a[3], b[3]), FDiv(a[4], b[4])>>

X86_new(x, y, z, w) == mm_set_ps(w, z, y, x)

X86_x(v) == mm_cvtss_f32(v)

X86_y(v) == mm_cvtss_f32(mm_shuffle_ps(v, v, MM_SHUFFLE(1, 1, 1, 1)))

X86_z(v) == mm_cvtss_f32(mm_shuffle_ps(v, v, MM_SHUFFLE(2, 2, 2, 2)))

X86_w(v) == mm_cvtss_f32(mm_shuffle_ps(v, v, MM_SHUFFLE(3, 3, 3, 3)))

\* X86_shuffle with the mask arguments in X, Y, Z, W order
X86_shuffle_mask_reversed(v, X, Y, Z, W) == mm_shuffle_ps(v, v, MM_SHUFFLE(X, Y, Z, W))

X86_shuffle(v, X, Y, Z, W) == mm_shuffle_ps(v, v, MM_SHUFFLE(W, Z, Y, X))

X86_shuffle_merge(vec1, vec2, X, Y, Z, W) == mm_shuffle_ps(vec1, vec2, MM_SHUFFLE(W, Z, Y, X))

\* super::shuffle_args(X, Y, Z, W), the const function of the where clause
\* [(); shuffle_args(X, Y, Z, W)]: Sized; the clause is well-formed exactly
\* when the four indices are valid
shuffle_args(X, Y, Z, W) == X < 4 /\ Y < 4 /\ Z < 4 /\ W < 4

X86_shuffle_call(v, X, Y, Z, W) ==
    IF shuffle_args(X, Y, Z, W)
    THEN [status |-> "ok", val |-> X86_shuffle(v, X, Y, Z, W), reads |-> 4]
    ELSE [status |-> "compile_error", val |-> <<>>, reads |-> 0]

X86_shuffle_merge_call(vec1, vec2, X, Y, Z, W) ==
    IF shuffle_args(X, Y, Z, W)
    THEN [status |-> "ok", val |-> X86_shuffle_merge(vec1, vec2, X, Y, Z, W), reads |-> 4]
    ELSE [status |-> "compile_error", val |-> <<>>, reads |-> 0]

\* match idx { 0 => x(), 1 => y(), 2 => z(), 3 => w(), _ => panic!() }
X86_get(v, i) ==
    CASE i = 0 -> Ok(X86_x(v))
      [] i = 1 -> Ok(X86_y(v))
      [] i = 2 -> Ok(X86_z(v))
      [] i = 3 -> Ok(X86_w(v))
      [] OTHER -> Panic

X86_hsum(v) ==
    LET shuf  == mm_shuffle_ps(v, v, MM_SHUFFLE(2, 3, 0, 1))
        sum   == mm_add_ps(v, shuf)
        shuf2 == mm_movehl_ps(shuf, sum)
        sum2  == mm_add_ps(sum, shuf2)
    IN  mm_cvtss_f32(sum2)

\* _mm_movemask_epi8(vcmp) == 0xffff
X86_eq(a, b) == mm_movemask_epi8(mm_cmpeq_ps(a, b)) = 65535

X86_default == mm_setzero_ps

X86_mul_f32(a, rhs) == mm_mul_ps(a, mm_set1_ps(rhs))

X86_div_f32(a, rhs) == mm_div_ps(a, mm_set1_ps(rhs))

X86_set_x(v, val) == mm_move_ss(v, mm_set_ss(val))

\* X86_set_y with a mask that leaves every lane in place
X86_set_y_identity_mask(v, val) ==
    LET t  == mm_move_ss(v, mm_set_ss(val))
        t2 == mm_shuffle_ps(t, t, MM_SHUFFLE(3, 2, 1, 0))
    IN  mm_move_ss(t2, v)

X86_set_y(v, val) ==
    LET t  == mm_move_ss(v, mm_set_ss(val))
        t2 == mm_shuffle_ps(t, t, MM_SHUFFLE(3, 2, 0, 0))
    IN  mm_move_ss(t2, v)

X86_set_z(v, val) ==
    LET t  == mm_move_ss(v, mm_set_ss(val))
        t2 == mm_shuffle_ps(t, t, MM_SHUFFLE(3, 0, 1, 0))
    IN  mm_move_ss(t2, v)

X86_set_w(v, val) ==
    LET t  == mm_move_ss(v, mm_set_ss(val))
        t2 == mm_shuffle_ps(t, t, MM_SHUFFLE(0, 2, 1, 0))
    IN  mm_move_ss(t2, v)


----------------------------------------------------------------------------
(* base::Vector, wasm backend (base/vector/wasm.rs) *)

f32x4(x, y, z, w) == <<x, y, z, w>>

f32x4_add(a, b) == <<FAdd(a[1], b[1]), FAdd(a[2], b[2]), FAdd(a[3], b[3]), FAdd(a[4], b[4])>>

f32x4_sub(a, b) == <<FSub(a[1], b[1]), FSub(a[2], b[2]), FSub(a[3], b[3]), FSub(a[4], b[4])>>

f32x4_mul(a, b) == <<FMul(a[1], b[1]), FMul(a[2], b[2]), FMul(a[3], b[3]), FMul(a[4], b[4])>>

f32x4_div(a, b) == <<FDiv(a[1], b[1]), FDiv(a[2], b[2]), FDiv(a[3], b[3]), FDiv(a[4], b[4])>>

Wasm_new(x, y, z, w) == f32x4(x, y, z, w)

Wasm_shuffle(v, X, Y, Z, W) == u32x4_shuffle(X, Y, Z, W, v, v)

\* Wasm_shuffle_merge without the offset selecting the second operand
Wasm_shuffle_merge_no_offset(vec1, vec2, X, Y, Z, W) == u32x4_shuffle(X, Y, Z, W, vec1, vec2)

Wasm_shuffle_merge(vec1, vec2, X, Y, Z, W) == u32x4_shuffle(X, Y, Z + 4, W + 4, vec1, vec2)

\* where Check<{ is_shuffle_arg(X, Y, Z, W) }>: True
Wasm_shuffle_call(v, X, Y, Z, W) ==
    IF is_shuffle_arg(X, Y, Z, W)
    THEN [status |-> "ok", val |-> Wasm_shuffle(v, X, Y, Z, W), reads |-> 4]
    ELSE [status |-> "compile_error", val |-> <<>>, reads |-> 0]

Wasm_shuffle_merge_call(vec1, vec2, X, Y, Z, W) ==
    IF is_shuffle_arg(X, Y, Z, W)
    THEN [status |-> "ok", val |-> Wasm_shuffle_merge(vec1, vec2, X, Y, Z, W), reads |-> 4]
    ELSE [status |-> "compile_error", val |-> <<>>, reads |-> 0]

Wasm_get(v, i) == IF i < 4 THEN Ok(Lane(v, i)) ELSE Panic

\* Wasm_hsum without the second shuffle and add
Wasm_hsum_first_pair(v) ==
    LET shuf  == u32x4_shuffle(1, 0, 3, 2, v, v)
        sum   == f32x4_add(v, shuf)
    IN  f32x4_extract_lane(0, sum)

Wasm_hsum(v) ==
    LET shuf  == u32x4_shuffle(1, 0, 3, 2, v, v)
        sum   == f32x4_add(v, shuf)
        shuf2 == u32x4_shuffle(2, 1, 2, 1, sum, sum)
        sum2  == f32x4_add(sum, shuf2)
    IN  f32x4_extract_lane(0, sum2)

Wasm_eq(a, b) == v128_any_true(f32x4_eq(a, b))

Wasm_default == f32x4_splat(F(0))

Wasm_mul_f32(a, rhs) == f32x4_mul(a, f32x4_splat(rhs))

Wasm_div_f32(a, rhs) == f32x4_div(a, f32x4_splat(rhs))

Wasm_adj_add(lhs, rhs) ==
    LET a == u32x4_shuffle(0, 2, 0, 2, lhs, rhs)
        b == u32x4_shuffle(1, 3, 1, 3, lhs, rhs)
    IN  f32x4_add(a, b)

Wasm_adj_sub(lhs, rhs) ==
    LET a == u32x4_shuffle(0, 2, 0, 2, lhs, rhs)
        b == u32x4_shuffle(1, 3, 1, 3, lhs, rhs)
    IN  f32x4_sub(a, b)

Wasm_add_sub(lhs, rhs) ==
    LET add  == f32x4_add(lhs, rhs)
        add2 == u32x4_shuffle(1, 3, 1, 3, add, add)
        sub  == f32x4_sub(lhs, rhs)
        sub2 == u32x4_shuffle(0, 2, 0, 2, sub, sub)
    IN  u32x4_shuffle(0, 1, 0, 1, sub2, add2)

Wasm_set_x(v, val) == f32x4_replace_lane(0, v, val)

Wasm_set_y(v, val) == f32x4_replace_lane(1, v, val)

Wasm_set_z(v, val) == f32x4_replace_lane(2, v, val)

Wasm_set_w(v, val) == f32x4_replace_lane(3, v, val)


----------------------------------------------------------------------------
(* base::Vector as selected by the build configuration (base/vector/mod.rs) *)

VNew(be, x, y, z, w) ==
    CASE be = "scalar" -> Scalar_new(x, y, z, w)
      [] be = "x86"    -> X86_new(x, y, z, w)
      [] be = "wasm"   -> Wasm_new(x, y, z, w)

VAdd(be, a, b) ==
    CASE be = "scalar" -> Scalar_add(a, b)
      [] be = "x86"    -> mm_add_ps(a, b)
      [] be = "wasm"   -> f32x4_add(a, b)

VSub(be, a, b) ==
    CASE be = "scalar" -> Scalar_sub(a, b)
      [] be = "x86"    -> mm_sub_ps(a, b)
      [] be = "wasm"   -> f32x4_sub(a, b)

VMul(be, a, b) ==
    CASE be = "scalar" -> Scalar_mul(a, b)
      [] be = "x86"    -> mm_mul_ps(a, b)
      [] be = "wasm"   -> f32x4_mul(a, b)

VDiv(be, a, b) ==
    CASE be = "scalar" -> Scalar_div(a, b)
      [] be = "x86"    -> mm_div_ps(a, b)
      [] be = "wasm"   -> f32x4_div(a, b)

VX(be, v) ==
    CASE be = "scalar" -> v[1]
      [] be = "x86"    -> X86_x(v)
      [] be = "wasm"   -> f32x4_extract_lane(0, v)

VY(be, v) ==
    CASE be = "scalar" -> v[2]
      [] be = "x86"    -> X86_y(v)
      [] be = "wasm"   -> f32x4_extract_lane(1, v)

VZ(be, v) ==
    CASE be = "scalar" -> v[3]
      [] be = "x86"    -> X86_z(v)
      [] be = "wasm"   -> f32x4_extract_lane(2, v)

VW(be, v) ==
    CASE be = "scalar" -> v[4]
      [] be = "x86"    -> X86_w(v)
      [] be = "wasm"   -> f32x4_extract_lane(3, v)

Get(be, v, i) ==
    CASE be = "scalar" -> Scalar_get(v, i)
      [] be = "x86"    -> X86_get(v, i)
      [] be = "wasm"   -> Wasm_get(v, i)

Shuffle(be, v, X, Y, Z, W) ==
    CASE be = "scalar" -> Scalar_shuffle(v, X, Y, Z, W)
      [] be = "x86"    -> X86_shuffle(v, X, Y, Z, W)
      [] be = "wasm"   -> Wasm_shuffle(v, X, Y, Z, W)

ShuffleMerge(be, vec1, vec2, X, Y, Z, W) ==
    CASE be = "scalar" -> Scalar_shuffle_merge(vec1, vec2, X, Y, Z, W)
      [] be = "x86"    -> X86_shuffle_merge(vec1, vec2, X, Y, Z, W)
      [] be = "wasm"   -> Wasm_shuffle_merge(vec1, vec2, X, Y, Z, W)

ShuffleCall(be, v, X, Y, Z, W) ==
    CASE be = "scalar" -> Scalar_shuffle_call(v, X, Y, Z, W)
      [] be = "x86"    -> X86_shuffle_call(v, X, Y, Z, W)
      [] be = "wasm"   -> Wasm_shuffle_call(v, X, Y, Z, W)

ShuffleMergeCall(be, vec1, vec2, X, Y, Z, W) ==
    CASE be = "scalar" -> Scalar_shuffle_merge_call(vec1, vec2, X, Y, Z, W)
      [] be = "x86"    -> X86_shuffle_merge_call(vec1, vec2, X, Y, Z, W)
      [] be = "wasm"   -> Wasm_shuffle_merge_call(vec1, vec2, X, Y, Z, W)

Hsum(be, v) ==
    CASE be = "scalar" -> Scalar_hsum(v)
      [] be = "x86"    -> X86_hsum(v)
      [] be = "wasm"   -> Wasm_hsum(v)

\* self == other
VEq(be, a, b) ==
    CASE be = "scalar" -> Scalar_eq(a, b)
      [] be = "x86"    -> X86_eq(a, b)
      [] be = "wasm"   -> Wasm_eq(a, b)

VDefault(be) ==
    CASE be = "scalar" -> Scalar_default
      [] be = "x86"    -> X86_default
      [] be = "wasm"   -> Wasm_default

\* impl Neg for Vector: Self::default() - self
VNeg(be, v) == VSub(be, VDefault(be), v)

VMulF32(be, a, rhs) ==
    CASE be = "scalar" -> Scalar_mul_f32(a, rhs)
      [] be = "x86"    -> X86_mul_f32(a, rhs)
      [] be = "wasm"   -> Wasm_mul_f32(a, rhs)

\* the backends whose Vector has adj_add, adj_sub and add_sub: x86.rs defines none
VDivF32(be, a, rhs) ==
    CASE be = "scalar" -> Scalar_div_f32(a, rhs)
      [] be = "x86" -> X86_div_f32(a, rhs)
      [] be = "wasm" -> Wasm_div_f32(a, rhs)

AdjBackends == {"scalar", "wasm"}

AdjAdd(be, lhs, rhs) ==
    CASE be = "scalar" -> Scalar_adj_add(lhs, rhs)
      [] be = "wasm"   -> Wasm_adj_add(lhs, rhs)

AdjSub(be, lhs, rhs) ==
    CASE be = "scalar" -> Scalar_adj_sub(lhs, rhs)
      [] be = "wasm"   -> Wasm_adj_sub(lhs, rhs)

AddSub(be, lhs, rhs) ==
    CASE be = "scalar" -> Scalar_add_sub(lhs, rhs)
      [] be = "wasm"   -> Wasm_add_sub(lhs, rhs)

\* Vector::dot(lhs, rhs): (lhs * rhs).hsum()
VDot(be, lhs, rhs) == Hsum(be, VMul(be, lhs, rhs))

\* Vector::length_square(self): Self::dot(self, self)
VLengthSquare(be, self) == VDot(be, self, self)

\* VCross with the second product left unshuffled
VCross_second_product_unshuffled(be, lhs, rhs) ==
    LET temp == Shuffle(be, lhs, 1, 2, 0, 3)
    IN  VSub(be, VMul(be, temp, Shuffle(be, rhs, 2, 0, 1, 3)), VMul(be, temp, rhs))

\* Vector::cross(lhs, rhs)
VCross(be, lhs, rhs) ==
    LET temp == Shuffle(be, lhs, 1, 2, 0, 3)
    IN  VSub(be, VMul(be, temp, Shuffle(be, rhs, 2, 0, 1, 3)),
                 Shuffle(be, VMul(be, temp, rhs), 1, 2, 0, 3))

\* Vector::lerp(from, to, t)
VLerp(be, from, to, t) == VAdd(be, from, VMulF32(be, VSub(be, from, to), t))

\* Vector::length
VLength(be, self) == FSqrt(VLengthSquare(be, self))

\* Vector::normalize
VNormalize(be, self) == VDivF32(be, self, VLength(be, self))

SetX(be, v, val) ==
    CASE be = "scalar" -> Scalar_set_x(v, val)
      [] be = "x86"    -> X86_set_x(v, val)
      [] be = "wasm"   -> Wasm_set_x(v, val)

SetY(be, v, val) ==
    CASE be = "scalar" -> Scalar_set_y(v, val)
      [] be = "x86"    -> X86_set_y(v, val)
      [] be = "wasm"   -> Wasm_set_y(v, val)

SetZ(be, v, val) ==
    CASE be = "scalar" -> Scalar_set_z(v, val)
      [] be = "x86"    -> X86_set_z(v, val)
      [] be = "wasm"   -> Wasm_set_z(v, val)

SetW(be, v, val) ==
    CASE be = "scalar" -> Scalar_set_w(v, val)
      [] be = "x86"    -> X86_set_w(v, val)
      [] be = "wasm"   -> Wasm_set_w(v, val)


----------------------------------------------------------------------------
(* base::Matrix (base/matrix.rs): rows: [Vector; 4], rows[i] stored at m[i+1] *)

\* Matrix::rows(rows: [[f32; 4]; 4])
Rows(be, a) ==
    << VNew(be, a[1][1], a[1][2], a[1][3], a[1][4]),
       VNew(be, a[2][1], a[2][2], a[2][3], a[2][4]),
       VNew(be, a[3][1], a[3][2], a[3][3], a[3][4]),
       VNew(be, a[4][1], a[4][2], a[4][3], a[4][4]) >>

\* Identity with the third row repeated as the fourth
Identity_row_repeated(be) ==
    << VNew(be, F(1), F(0), F(0), F(0)),
       VNew(be, F(0), F(1), F(0), F(0)),
       VNew(be, F(0), F(0), F(1), F(0)),
       VNew(be, F(0), F(0), F(1), F(0)) >>

Identity(be) ==
    << VNew(be, F(1), F(0), F(0), F(0)),
       VNew(be, F(0), F(1), F(0), F(0)),
       VNew(be, F(0), F(0), F(1), F(0)),
       VNew(be, F(0), F(0), F(0), F(1)) >>

\* one iteration of the loop of impl Mul for Matrix
MatMulRow(be, self, rhs, i) ==
    VAdd(be,
         VAdd(be,
              VAdd(be, VMul(be, rhs[1], Shuffle(be, self[i], 0, 0, 0, 0)),
                       VMul(be, rhs[2], Shuffle(be, self[i], 1, 1, 1, 1))),
              VMul(be, rhs[3], Shuffle(be, self[i], 2, 2, 2, 2))),
         VMul(be, rhs[4], Shuffle(be, self[i], 3, 3, 3, 3)))

\* MatMul with the operands exchanged
MatMul_swapped(be, self, rhs) ==
    << MatMulRow(be, rhs, self, 1), MatMulRow(be, rhs, self, 2),
       MatMulRow(be, rhs, self, 3), MatMulRow(be, rhs, self, 4) >>

MatMul(be, self, rhs) ==
    << MatMulRow(be, self, rhs, 1), MatMulRow(be, self, rhs, 2),
       MatMulRow(be, self, rhs, 3), MatMulRow(be, self, rhs, 4) >>

\* Transpose with the last two rows exchanged
Transpose_rows_exchanged(be, self) ==
    LET temp == << ShuffleMerge(be, self[1], self[2], 0, 1, 0, 1),
                   ShuffleMerge(be, self[1], self[2], 2, 3, 2, 3),
                   ShuffleMerge(be, self[3], self[4], 0, 1, 0, 1),
                   ShuffleMerge(be, self[3], self[4], 2, 3, 2, 3) >>
    IN  << ShuffleMerge(be, temp[1], temp[3], 0, 2, 0, 2),
           ShuffleMerge(be, temp[1], temp[3], 1, 3, 1, 3),
           ShuffleMerge(be, temp[2], temp[4], 1, 3, 1, 3),
           ShuffleMerge(be, temp[2], temp[4], 0, 2, 0, 2) >>

Transpose(be, self) ==
    LET temp == << ShuffleMerge(be, self[1], self[2], 0, 1, 0, 1),
                   ShuffleMerge(be, self[1], self[2], 2, 3, 2, 3),
                   ShuffleMerge(be, self[3], self[4], 0, 1, 0, 1),
                   ShuffleMerge(be, self[3], self[4], 2, 3, 2, 3) >>
    IN  << ShuffleMerge(be, temp[1], temp[3], 0, 2, 0, 2),
           ShuffleMerge(be, temp[1], temp[3], 1, 3, 1, 3),
           ShuffleMerge(be, temp[2], temp[4], 0, 2, 0, 2),
           ShuffleMerge(be, temp[2], temp[4], 1, 3, 1, 3) >>

mat2_mul(be, vec1, vec2) ==
    VAdd(be,
         VAdd(be, VMul(be, vec1, Shuffle(be, vec2, 0, 0, 3, 3)),
                  Shuffle(be, vec1, 2, 3, 0, 1)),
         Shuffle(be, vec2, 1, 1, 2, 2))

mat2_adj_mul(be, vec1, vec2) ==
    VSub(be, VMul(be, Shuffle(be, vec1, 3, 0, 3, 0), vec2),
             VMul(be, Shuffle(be, vec1, 2, 1, 2, 1), Shuffle(be, vec2, 1, 0, 3, 2)))

mat2_mul_adj(be, vec1, vec2) ==
    VSub(be, VMul(be, vec1, Shuffle(be, vec2, 3, 3, 0, 0)),
             VMul(be, Shuffle(be, vec1, 2, 3, 0, 1), Shuffle(be, vec2, 1, 1, 2, 2)))

\* DetSub adding the two products instead of subtracting them
DetSub_plus(be, self) ==
    VAdd(be,
         VMul(be, ShuffleMerge(be, self[1], self[3], 0, 2, 0, 2),
                  ShuffleMerge(be, self[2], self[4], 1, 3, 1, 3)),
         VMul(be, ShuffleMerge(be, self[1], self[3], 1, 3, 1, 3),
                  ShuffleMerge(be, self[2], self[4], 0, 2, 0, 2)))

\* the 2x2 sub-determinants det_sub of det() and inverse()
DetSub(be, self) ==
    VSub(be,
         VMul(be, ShuffleMerge(be, self[1], self[3], 0, 2, 0, 2),
                  ShuffleMerge(be, self[2], self[4], 1, 3, 1, 3)),
         VMul(be, ShuffleMerge(be, self[1], self[3], 1, 3, 1, 3),
                  ShuffleMerge(be, self[2], self[4], 0, 2, 0, 2)))

Det(be, self) ==
    LET a == ShuffleMerge(be, self[1], self[2], 0, 1, 0, 1)
        c == ShuffleMerge(be, self[1], self[2], 2, 3, 2, 3)
        b == ShuffleMerge(be, self[3], self[4], 0, 1, 0, 1)
        d == ShuffleMerge(be, self[3], self[4], 2, 3, 2, 3)
        det_sub == DetSub(be, self)
        det_a == Shuffle(be, det_sub, 0, 0, 0, 0)
        det_c == Shuffle(be, det_sub, 1, 1, 1, 1)
        det_b == Shuffle(be, det_sub, 2, 2, 2, 2)
        det_d == Shuffle(be, det_sub, 3, 3, 3, 3)
        d_c == mat2_adj_mul(be, d, c)
        a_b == mat2_adj_mul(be, a, b)
        tr == Hsum(be, VMul(be, a_b, Shuffle(be, d_c, 0, 2, 1, 3)))
    IN  VX(be, VSub(be, VAdd(be, VMul(be, det_a, det_d), VMul(be, det_b, det_c)),
                        VNew(be, tr, tr, tr, tr)))

\* Matrix::inverse returning the zero matrix for a zero determinant
Inverse_zero_when_singular(be, self) ==
    LET a == ShuffleMerge(be, self[1], self[2], 0, 1, 0, 1)
        c == ShuffleMerge(be, self[1], self[2], 2, 3, 2, 3)
        b == ShuffleMerge(be, self[3], self[4], 0, 1, 0, 1)
        d == ShuffleMerge(be, self[3], self[4], 2, 3, 2, 3)
        det_sub == DetSub(be, self)
        det_a == Shuffle(be, det_sub, 0, 0, 0, 0)
        det_c == Shuffle(be, det_sub, 1, 1, 1, 1)
        det_b == Shuffle(be, det_sub, 2, 2, 2, 2)
        det_d == Shuffle(be, det_sub, 3, 3, 3, 3)
        d_c == mat2_adj_mul(be, d, c)
        a_b == mat2_adj_mul(be, a, b)
        x_ == VSub(be, VMul(be, det_d, a), mat2_mul(be, b, d_c))
        w_ == VSub(be, VMul(be, det_a, d), mat2_mul(be, c, a_b))
        y_ == VSub(be, VMul(be, det_b, c), mat2_mul_adj(be, d, a_b))
        z_ == VSub(be, VMul(be, det_c, b), mat2_mul_adj(be, a, d_c))
        tr == Hsum(be, VMul(be, a_b, Shuffle(be, d_c, 0, 2, 1, 3)))
        det_m == VSub(be, VAdd(be, VMul(be, det_a, det_d), VMul(be, det_b, det_c)),
                          VNew(be, tr, tr, tr, tr))
        r_det_m == IF VX(be, det_m) = F(0)
                   THEN VNew(be, F(0), F(0), F(0), F(0))
                   ELSE VDiv(be, VNew(be, F(1), F(-1), F(-1), F(1)), det_m)
        x == VMul(be, x_, r_det_m)
        y == VMul(be, y_, r_det_m)
        z == VMul(be, z_, r_det_m)
        w == VMul(be, w_, r_det_m)
    IN  << ShuffleMerge(be, x, z, 3, 1, 3, 1),
           ShuffleMerge(be, x, z, 2, 0, 2, 0),
           ShuffleMerge(be, y, w, 3, 1, 3, 1),
           ShuffleMerge(be, y, w, 2, 0, 2, 0) >>

Inverse(be, self) ==
    LET a == ShuffleMerge(be, self[1], self[2], 0, 1, 0, 1)
        c == ShuffleMerge(be, self[1], self[2], 2, 3, 2, 3)
        b == ShuffleMerge(be, self[3], self[4], 0, 1, 0, 1)
        d == ShuffleMerge(be, self[3], self[4], 2, 3, 2, 3)
        det_sub == DetSub(be, self)
        det_a == Shuffle(be, det_sub, 0, 0, 0, 0)
        det_c == Shuffle(be, det_sub, 1, 1, 1, 1)
        det_b == Shuffle(be, det_sub, 2, 2, 2, 2)
        det_d == Shuffle(be, det_sub, 3, 3, 3, 3)
        d_c == mat2_adj_mul(be, d, c)
        a_b == mat2_adj_mul(be, a, b)
        x_ == VSub(be, VMul(be, det_d, a), mat2_mul(be, b, d_c))
        w_ == VSub(be, VMul(be, det_a, d), mat2_mul(be, c, a_b))
        y_ == VSub(be, VMul(be, det_b, c), mat2_mul_adj(be, d, a_b))
        z_ == VSub(be, VMul(be, det_c, b), mat2_mul_adj(be, a, d_c))
        tr == Hsum(be, VMul(be, a_b, Shuffle(be, d_c, 0, 2, 1, 3)))
        det_m == VSub(be, VAdd(be, VMul(be, det_a, det_d), VMul(be, det_b, det_c)),
                          VNew(be, tr, tr, tr, tr))
        r_det_m == VDiv(be, VNew(be, F(1), F(-1), F(-1), F(1)), det_m)
        x == VMul(be, x_, r_det_m)
        y == VMul(be, y_, r_det_m)
        z == VMul(be, z_, r_det_m)
        w == VMul(be, w_, r_det_m)
    IN  << ShuffleMerge(be, x, z, 3, 1, 3, 1),
           ShuffleMerge(be, x, z, 2, 0, 2, 0),
           ShuffleMerge(be, y, w, 3, 1, 3, 1),
           ShuffleMerge(be, y, w, 2, 0, 2, 0) >>

\* self.rows[idx as usize]: the array index is bounds-checked
GetRow(be, self, i) == IF i < Len(self) THEN Ok(self[i + 1]) ELSE Panic

\* Vector::new(rows[0].get(idx), rows[1].get(idx), rows[2].get(idx), rows[3].get(idx))
GetColumn(be, self, i) ==
    LET g0 == Get(be, self[1], i)
        g1 == Get(be, self[2], i)
        g2 == Get(be, self[3], i)
        g3 == Get(be, self[4], i)
    IN  IF g0.status = "ok" /\ g1.status = "ok" /\ g2.status = "ok" /\ g3.status = "ok"
        THEN Ok(VNew(be, g0.val, g1.val, g2.val, g3.val))
        ELSE Panic

\* Vector * Matrix with the first two lanes of the Vector exchanged
VecMulMatrix_lanes_exchanged(be, self, rhs) ==
    VAdd(be,
         VAdd(be,
              VAdd(be, VMul(be, rhs[1], Shuffle(be, self, 1, 1, 1, 1)),
                       VMul(be, rhs[2], Shuffle(be, self, 0, 0, 0, 0))),
              VMul(be, rhs[3], Shuffle(be, self, 2, 2, 2, 2))),
         VMul(be, rhs[4], Shuffle(be, self, 3, 3, 3, 3)))

\* impl Mul<Matrix> for Vector: rhs.get_row(k) * self.shuffle::<k, k, k, k>(), summed
VecMulMatrix(be, self, rhs) ==
    VAdd(be,
         VAdd(be,
              VAdd(be, VMul(be, rhs[1], Shuffle(be, self, 0, 0, 0, 0)),
                       VMul(be, rhs[2], Shuffle(be, self, 1, 1, 1, 1))),
              VMul(be, rhs[3], Shuffle(be, self, 2, 2, 2, 2))),
         VMul(be, rhs[4], Shuffle(be, self, 3, 3, 3, 3)))

----------------------------------------------------------------------------
(* base::Quaternion (base/quaternion.rs): a wrapped Vector *)

QuatNew(be, x, y, z, w) == VNew(be, x, y, z, w)

\* impl Default for Quaternion
Quaternion_default(be) == VNew(be, F(0), F(0), F(0), F(1))

\* impl Mul for Quaternion
QuatMul(be, self, rhs) ==
    LET l_x == VX(be, self)
        l_y == VY(be, self)
        l_z == VZ(be, self)
        l_w == VW(be, self)
        r_x == VX(be, rhs)
        r_y == VY(be, rhs)
        r_z == VZ(be, rhs)
        r_w == VW(be, rhs)
    IN  VNew(be,
             FSub(FAdd(FAdd(FMul(l_w, r_x), FMul(l_x, r_w)), FMul(l_y, r_z)), FMul(l_z, r_y)),
             FSub(FAdd(FAdd(FMul(l_w, r_y), FMul(l_y, r_w)), FMul(l_z, r_x)), FMul(l_x, r_z)),
             FSub(FAdd(FAdd(FMul(l_w, r_z), FMul(l_z, r_w)), FMul(l_x, r_y)), FMul(l_y, r_x)),
             FSub(FSub(FSub(FMul(l_w, r_w), FMul(l_x, r_x)), FMul(l_y, l_y)), FMul(l_z, r_z)))

\* impl Add for Quaternion
Quaternion_add(be, self, rhs) == VAdd(be, self, rhs)

\* impl Sub for Quaternion
Quaternion_sub(be, self, rhs) == VSub(be, self, rhs)

\* impl Mul<f32> for Quaternion
Quaternion_mul_f32(be, self, rhs) == VMulF32(be, self, rhs)

\* Quaternion::normalize
Quaternion_normalize(be, self) == VNormalize(be, self)

\* Quaternion::dot
Quaternion_dot(be, lhs, rhs) == VDot(be, lhs, rhs)

\* the f32 literals 0.0001f32 and 0.9995f32 of slerp
UnitEpsilon == <<1, 10000>>

LerpThreshold == <<1999, 2000>>

\* slerp without the linear fallback for nearly parallel operands
Slerp_value_no_fallback(be, from, to, t) ==
    LET cos == Quaternion_dot(be, from, to)
        theta == FAcos(cos)
        dtheta == AngleTimes(theta, t)
        qperp == Quaternion_normalize(be,
                     Quaternion_sub(be, to, Quaternion_mul_f32(be, from, cos)))
    IN  Quaternion_add(be, Quaternion_mul_f32(be, from, FCos(dtheta)),
                           Quaternion_mul_f32(be, qperp, FSin(dtheta)))

\* the value slerp returns once its assertions have passed
Slerp_value(be, from, to, t) ==
    LET cos == Quaternion_dot(be, from, to)
    IN  IF FGt(cos, LerpThreshold)
        THEN Quaternion_normalize(be,
                 Quaternion_add(be, Quaternion_mul_f32(be, from, FSub(F(1), t)),
                                    Quaternion_mul_f32(be, to, t)))
        ELSE LET theta == FAcos(cos)
                 dtheta == AngleTimes(theta, t)
                 qperp == Quaternion_normalize(be,
                              Quaternion_sub(be, to, Quaternion_mul_f32(be, from, cos)))
             IN  Quaternion_add(be, Quaternion_mul_f32(be, from, FCos(dtheta)),
                                    Quaternion_mul_f32(be, qperp, FSin(dtheta)))

\* Quaternion::slerp; debug_assert! is compiled in when dbg holds
Quaternion_slerp(be, dbg, from, to, t) ==
    IF dbg /\ ~nearly_equal(Quaternion_dot(be, from, from), F(1), UnitEpsilon) THEN Panic
    ELSE IF dbg /\ ~nearly_equal(Quaternion_dot(be, to, to), F(1), UnitEpsilon) THEN Panic
    ELSE Ok(Slerp_value(be, from, to, t))

----------------------------------------------------------------------------
(* Direction, Rotation and Transform (direction.rs, rotation.rs, transform.rs):
   a Direction and a Rotation wrap one Vector; a Transform is the pair of
   Matrix fields matrix and inverse *)

\* Direction::new(x, y, z): Self(Vector::new(x, y, z, 0f32))
Direction_new(be, x, y, z) == VNew(be, x, y, z, F(0))

\* Point::new(x, y, z): Self(Vector::new(x, y, z, 1f32))
Point_new(be, x, y, z) == VNew(be, x, y, z, F(1))

\* Matrix::row_vectors(rows): Self { rows }
RowVectors(rows) == rows

\* Point::lerp(from, to, t): Point(Vector::lerp(from.0, to.0, t))
Point_lerp(be, from, to, t) == VLerp(be, from, to, t)

\* Direction::lerp(from, to, t): Direction(Vector::lerp(from.0, to.0, t))
Direction_lerp(be, from, to, t) == VLerp(be, from, to, t)

\* impl Default for Point
Point_default(be) == VNew(be, F(0), F(0), F(0), F(1))

\* impl Add<Direction> for Point
Point_add(be, self, rhs) == VAdd(be, self, rhs)

\* impl Sub<Direction> for Point
Point_sub(be, self, rhs) == VSub(be, self, rhs)

\* Point::set_x, set_y, set_z
Point_set(be, self, lane, val) ==
    CASE lane = "x" -> SetX(be, self, val)
      [] lane = "y" -> SetY(be, self, val)
      [] lane = "z" -> SetZ(be, self, val)

\* Point::shuffle::<X, Y, Z>
Point_shuffle(be, self, X, Y, Z) == Shuffle(be, self, X, Y, Z, 3)

\* CoordinateSystem: the public fields x, y, z, each a Direction
CoordinateSystem_identity(be) ==
    [x |-> Direction_new(be, F(1), F(0), F(0)),
     y |-> Direction_new(be, F(0), F(1), F(0)),
     z |-> Direction_new(be, F(0), F(0), F(1))]

\* Point::transform_to
Point_transform_to(be, self, system) ==
    Point_new(be, VDot(be, self, system.x), VDot(be, self, system.y), VDot(be, self, system.z))

\* Point::transform_from
Point_transform_from(be, self, system) ==
    VAdd(be, VAdd(be, VMulF32(be, system.x, VX(be, self)),
                      VMulF32(be, system.y, VY(be, self))),
             VMulF32(be, system.z, VZ(be, self)))

Transform_identity(be) == [matrix |-> Identity(be), inverse |-> Identity(be)]

\* Transform_translate without the (0, 0, 0, 1) added to the last row
Transform_translate_no_w(be, dir) ==
    [matrix  |-> RowVectors(<< VNew(be, F(1), F(0), F(0), F(0)),
                               VNew(be, F(0), F(1), F(0), F(0)),
                               VNew(be, F(0), F(0), F(1), F(0)),
                               dir >>),
     inverse |-> RowVectors(<< VNew(be, F(1), F(0), F(0), F(0)),
                               VNew(be, F(0), F(1), F(0), F(0)),
                               VNew(be, F(0), F(0), F(1), F(0)),
                               VNeg(be, dir) >>)]

Transform_translate(be, dir) ==
    [matrix  |-> RowVectors(<< VNew(be, F(1), F(0), F(0), F(0)),
                               VNew(be, F(0), F(1), F(0), F(0)),
                               VNew(be, F(0), F(0), F(1), F(0)),
                               VAdd(be, dir, VNew(be, F(0), F(0), F(0), F(1))) >>),
     inverse |-> RowVectors(<< VNew(be, F(1), F(0), F(0), F(0)),
                               VNew(be, F(0), F(1), F(0), F(0)),
                               VNew(be, F(0), F(0), F(1), F(0)),
                               VAdd(be, VNeg(be, dir), VNew(be, F(0), F(0), F(0), F(1))) >>)]

Transform_scale(be, scale) ==
    LET inv == VDiv(be, VNew(be, F(1), F(1), F(1), F(1)), scale)
    IN  [matrix  |-> Rows(be, << <<VX(be, scale), F(0), F(0), F(0)>>,
                                 <<F(0), VY(be, scale), F(0), F(0)>>,
                                 <<F(0), F(0), VZ(be, scale), F(0)>>,
                                 <<F(0), F(0), F(0), F(1)>> >>),
         inverse |-> Rows(be, << <<VX(be, inv), F(0), F(0), F(0)>>,
                                 <<F(0), VY(be, inv), F(0), F(0)>>,
                                 <<F(0), F(0), VZ(be, inv), F(0)>>,
                                 <<F(0), F(0), F(0), F(1)>> >>)]

Transform_rotate(be, rotation) ==
    LET x == VX(be, rotation)
        y == VY(be, rotation)
        z == VZ(be, rotation)
        w == VW(be, rotation)
        matrix == Rows(be,
            << << FSub(F(1), FMul(F(2), FAdd(FMul(y, y), FMul(z, z)))),
                  FMul(F(2), FAdd(FMul(x, y), FMul(z, w))),
                  FMul(F(2), FSub(FMul(x, z), FMul(y, w))),
                  F(0) >>,
               << FMul(F(2), FSub(FMul(x, y), FMul(z, w))),
                  FSub(F(1), FMul(F(2), FAdd(FMul(x, x), FMul(z, z)))),
                  FMul(F(2), FAdd(FMul(y, z), FMul(x, w))),
                  F(0) >>,
               << FMul(F(2), FAdd(FMul(x, z), FMul(y, w))),
                  FMul(F(2), FSub(FMul(y, z), FMul(x, w))),
                  FSub(F(1), FMul(F(2), FAdd(FMul(x, x), FMul(y, y)))),
                  F(0) >>,
               << F(0), F(0), F(0), F(1) >> >>)
    IN  [matrix |-> matrix, inverse |-> Transpose(be, matrix)]

\* Transform_mul with the inverses multiplied in the order of the matrices
Transform_mul_inverse_same_order(be, self, rhs) ==
    [matrix  |-> MatMul(be, self.matrix, rhs.matrix),
     inverse |-> MatMul(be, self.inverse, rhs.inverse)]

\* impl Mul for Transform
Transform_mul(be, self, rhs) ==
    [matrix  |-> MatMul(be, self.matrix, rhs.matrix),
     inverse |-> MatMul(be, rhs.inverse, self.inverse)]

\* Transform_inverse that keeps the inverse field
Transform_inverse_half_kept(self) == [matrix |-> self.inverse, inverse |-> self.inverse]

Transform_inverse(self) == [matrix |-> self.inverse, inverse |-> self.matrix]

\* Direction::spherical; phi is an angle <<cos phi, sin phi>>
Direction_spherical(be, sin, cos, phi) ==
    Direction_new(be, FMul(sin, FCos(phi)), cos, FMul(cos, FSin(phi)))

\* CoordinateSystem::from_spherical: Direction * f32 and Direction + Direction
\* are the Vector operations on the wrapped Vectors
CoordinateSystem_from_spherical(be, self, sin, cos, phi) ==
    VAdd(be, VAdd(be, VMulF32(be, VMulF32(be, self.x, sin), FCos(phi)),
                      VMulF32(be, self.y, cos)),
             VMulF32(be, VMulF32(be, self.z, cos), FSin(phi)))

\* Normal::new(x, y, z): Self(Vector::new(x, y, z, 0f32))
Normal_new(be, x, y, z) == VNew(be, x, y, z, F(0))

\* impl Add for Normal
Normal_add(be, self, rhs) == VAdd(be, self, rhs)

\* impl Sub for Normal
Normal_sub(be, self, rhs) == VSub(be, self, rhs)

\* impl Neg for Normal
Normal_neg(be, self) == VNeg(be, self)

\* impl Mul<f32> for Normal
Normal_mul_f32(be, self, rhs) == VMulF32(be, self, rhs)

\* impl Div<f32> for Normal
Normal_div_f32(be, self, rhs) == VDivF32(be, self, rhs)

\* impl Mul<Transform> for Normal
Normal_mul_transform(be, self, rhs) == VecMulMatrix(be, self, Transpose(be, rhs.inverse))

\* Normal::in_hemisphere
Normal_in_hemisphere(be, self, dir) ==
    IF FLt(VDot(be, self, dir), F(0)) THEN Normal_neg(be, self) ELSE self

----------------------------------------------------------------------------
(* the column-major Matrix of matrix.rs: columns: [Vector; 4], columns[c]
   stored at m[c+1], over the Vector of vector/scalar.rs and vector/x86.rs.
   Vector::new, x(), y(), z(), w() and the lane-wise product are the same
   code there as in base/vector, and are modelled by the same operators. *)

LayoutBackends == {"scalar", "x86"}

\* _mm_movehdup_ps: lanes 1, 1, 3, 3
mm_movehdup_ps(a) == <<a[2], a[2], a[4], a[4]>>

\* data[0] + data[1] + data[2] + data[3]
Scalar_hsum4(v) == FAdd(FAdd(FAdd(v[1], v[2]), v[3]), v[4])

X86_hsum4(v) ==
    LET shuf  == mm_movehdup_ps(v)
        sum   == mm_add_ps(v, shuf)
        shuf2 == mm_movehl_ps(shuf, sum)
        sum2  == mm_add_ps(sum, shuf2)
    IN  mm_cvtss_f32(sum2)

\* dot4(lhs, rhs): (lhs * rhs).hsum4()
dot4(be, lhs, rhs) ==
    IF be = "scalar" THEN Scalar_hsum4(VMul(be, lhs, rhs)) ELSE X86_hsum4(VMul(be, lhs, rhs))

\* Matrix::new(rows: [[f32; 4]; 4])
ColumnMajor_new(be, a) ==
    << VNew(be, a[1][1], a[2][1], a[3][1], a[4][1]),
       VNew(be, a[1][2], a[2][2], a[3][2], a[4][2]),
       VNew(be, a[1][3], a[2][3], a[3][3], a[4][3]),
       VNew(be, a[1][4], a[2][4], a[3][4], a[4][4]) >>

\* the array `rows` built in impl Mul for Matrix, and in transpose
ColumnMajor_lanes(be, m) ==
    << VNew(be, VX(be, m[1]), VX(be, m[2]), VX(be, m[3]), VX(be, m[4])),
       VNew(be, VY(be, m[1]), VY(be, m[2]), VY(be, m[3]), VY(be, m[4])),
       VNew(be, VZ(be, m[1]), VZ(be, m[2]), VZ(be, m[3]), VZ(be, m[4])),
       VNew(be, VW(be, m[1]), VW(be, m[2]), VW(be, m[3]), VW(be, m[4])) >>

\* one iteration of the loop of impl Mul for Matrix
ColumnMajor_mul_column(be, self, rows, col) ==
    VNew(be, dot4(be, self[col], rows[1]), dot4(be, self[col], rows[2]),
             dot4(be, self[col], rows[3]), dot4(be, self[col], rows[4]))

ColumnMajor_mul(be, self, rhs) ==
    << ColumnMajor_mul_column(be, self, ColumnMajor_lanes(be, rhs), 1),
       ColumnMajor_mul_column(be, self, ColumnMajor_lanes(be, rhs), 2),
       ColumnMajor_mul_column(be, self, ColumnMajor_lanes(be, rhs), 3),
       ColumnMajor_mul_column(be, self, ColumnMajor_lanes(be, rhs), 4) >>

ColumnMajor_transpose(be, self) == ColumnMajor_lanes(be, self)

\* self.columns[idx as usize]: the array index is bounds-checked
ColumnMajor_get_column(be, self, i) == IF i < Len(self) THEN Ok(self[i + 1]) ELSE Panic

\* Vector::new(columns[0].get(idx), ..., columns[3].get(idx)); Vector::get is
\* that of base/vector
ColumnMajor_get_row(be, self, i) ==
    LET g0 == Get(be, self[1], i)
        g1 == Get(be, self[2], i)
        g2 == Get(be, self[3], i)
        g3 == Get(be, self[4], i)
    IN  IF g0.status = "ok" /\ g1.status = "ok" /\ g2.status = "ok" /\ g3.status = "ok"
        THEN Ok(VNew(be, g0.val, g1.val, g2.val, g3.val))
        ELSE Panic

----------------------------------------------------------------------------
(* inputs *)

\* how many rows of RowList the input matrices are built from
NumRows == 4

\* quaternion and vector lanes range over -1 .. MaxLane
MaxLane == 1

FV(a, b, c, d) == <<F(a), F(b), F(c), F(d)>>

RowList ==
    << FV(1, 2, 0, 1), FV(0, 1, 3, 0), FV(2, 0, 1, 1), FV(0, 1, 0, 2),
       FV(-1, 0, 2, 1), FV(1, 1, 1, 1), FV(3, -1, 0, 2), FV(0, 0, 1, -2) >>

RowPool == {RowList[i] : i \in 1..NumRows}

IdentityValues == <<FV(1, 0, 0, 0), FV(0, 1, 0, 0), FV(0, 0, 1, 0), FV(0, 0, 0, 1)>>

\* the matrices of the tests of base/matrix.rs
TestMatrix == <<FV(1, 2, 3, 4), FV(5, 6, 7, 8), FV(9, 10, 11, 12), FV(13, 14, 15, 16)>>

DiagMatrix == <<FV(2, 0, 0, 0), FV(0, 2, 0, 0), FV(0, 0, 2, 0), FV(0, 0, 0, 1)>>

GeneralMatrix == <<FV(1, 2, 0, 1), FV(0, 1, 3, 0), FV(2, 0, 1, 1), FV(0, 1, 0, 2)>>

MatA == {IdentityValues, TestMatrix, DiagMatrix}
            \cup {<<r1, r2, r3, r4>> : r1 \in RowPool, r2 \in RowPool, r3 \in RowPool, r4 \in RowPool}

MatB == {IdentityValues, TestMatrix, DiagMatrix, GeneralMatrix}

LaneValues == {F(i) : i \in -1..MaxLane}

Quats == {<<x, y, z, w>> : x \in LaneValues, y \in LaneValues, z \in LaneValues, w \in LaneValues}

\* the const arguments of shuffle range over 0 .. MaxShuffleIndex
MaxShuffleIndex == 5

ShuffleArgs ==
    {<<x, y, z, w>> : x \in 0..MaxShuffleIndex, y \in 0..MaxShuffleIndex,
                      z \in 0..MaxShuffleIndex, w \in 0..MaxShuffleIndex}

\* idx: u8
U8Max == 255

VecPool == {FV(1, 2, 3, 4), FV(4, 3, 2, 1), FV(-1, 2, -3, 4), FV(0, 0, 0, 0)}

\* the first operand of the Vector operations: every Vector with lanes in
\* -1 .. MaxLane, and the Vectors of the tests
LaneVecs == Quats \cup VecPool

\* the second operand of the Vector operations
OperandPool == VecPool \cup {FV(1, 0, 0, 0), FV(0, 1, 0, 0), FV(1, -1, 0, 1)}

\* the factors t passed to lerp: inside, at the ends of and outside [0, 1]
LerpFactors == {F(0), F(1), <<1, 2>>, F(2), F(-1)}

\* how many `*` are applied to one Transform
MaxDepth == 2

\* the x, y, z of the Directions passed to Transform::translate
TranslateDirs == {<<F(-2), F(5), F(1)>>}

\* the x, y, z of the Directions passed to Transform::scale: none of them zero
ScaleDirs == {<<F(1), F(-2), F(4)>>}

\* the unit quaternions passed to Transform::rotate
UnitQuats ==
    { << <<3, 5>>, F(0), <<4, 5>>, F(0) >>,
      << <<1, 2>>, <<1, 2>>, <<1, 2>>, <<1, 2>> >> }

\* the Points (w == 1) and Directions (w == 0) a translation is applied to
AffineVecs == {v \in LaneVecs : v[4] \in {F(0), F(1)}}

\* the x, y, z of the Directions a Point or Direction is translated by
ApplyDirs ==
    {<<x, y, z>> : x \in LaneValues, y \in LaneValues, z \in LaneValues}
        \cup {<<F(5), F(5), F(5)>>}

\* how many setter calls are made on one Vector
MaxCalls == 3

\* the values passed to the setters
SetValues == {F(7), F(-8)}


\* unit operands of slerp; the last two are 2024/2025 apart in dot product,
\* above the 0.9995 threshold
SlerpUnits ==
    { FV(0, 0, 0, 1), FV(0, 0, 0, -1), FV(1, 0, 0, 0),
      << <<3, 5>>, F(0), <<4, 5>>, F(0) >>, << <<-3, 5>>, F(0), <<-4, 5>>, F(0) >>,
      << <<1, 2>>, <<1, 2>>, <<1, 2>>, <<1, 2>> >>,
      << <<4, 9>>, <<7, 15>>, <<28, 45>>, <<4, 9>> >>,
      << <<7, 15>>, <<4, 9>>, <<28, 45>>, <<4, 9>> >> }

\* operands whose squared length is 10202/10201, 10200/10201 (within 1/10000
\* of 1), 10001/10000, 9999/10000 (at 1/10000 from 1), 2 and 0
SlerpOthers ==
    { << F(1), <<1, 101>>, F(0), F(0) >>,
      << <<100, 101>>, <<14, 101>>, <<2, 101>>, F(0) >>,
      << F(1), <<1, 100>>, F(0), F(0) >>,
      << <<99, 100>>, <<7, 50>>, <<1, 100>>, <<1, 100>> >>,
      FV(1, 1, 0, 0), FV(0, 0, 0, 0) }

SlerpQuats == SlerpUnits \cup SlerpOthers

\* pairs of unit operands, and every operand paired with itself and with
\* Quaternion::default()
SlerpPairs ==
    (SlerpUnits \X SlerpUnits)
        \cup {<<q, q>> : q \in SlerpOthers}
        \cup {<<FV(0, 0, 0, 1), q>> : q \in SlerpOthers}
        \cup {<<q, FV(0, 0, 0, 1)>> : q \in SlerpOthers}

\* coordinates of the Points and Directions the Point operations start from
PointCoords == {<<F(1), F(2), F(3)>>, <<F(-1), F(0), F(1)>>}

\* const arguments of Point::shuffle and Normal::shuffle
ShuffleTriples == {<<1, 2, 0>>, <<2, 2, 2>>}

\* CoordinateSystems: the identity and a skewed one
CoordinateSystems(be) ==
    { CoordinateSystem_identity(be),
      [x |-> Direction_new(be, F(2), F(0), F(0)),
       y |-> Direction_new(be, F(1), F(1), F(0)),
       z |-> Direction_new(be, F(0), F(0), F(-1))] }

\* scalars a Normal is multiplied and divided by
NormalScalars == {F(2), <<-1, 2>>}

\* Transforms a Normal is multiplied by
NormalTransforms(be) ==
    {Transform_translate(be, Direction_new(be, d[1], d[2], d[3])) : d \in TranslateDirs}
        \cup {Transform_scale(be, Direction_new(be, d[1], d[2], d[3])) : d \in ScaleDirs}
        \cup {Transform_rotate(be, QuatNew(be, r[1], r[2], r[3], r[4])) : r \in UnitQuats}

\* points <<cos, sin>> of the unit circle with rational coordinates
CirclePoints ==
    { <<F(1), F(0)>>, <<F(0), F(1)>>, <<F(-1), F(0)>>, <<F(0), F(-1)>>,
      << <<3, 5>>, <<4, 5>> >>, << <<4, 5>>, <<3, 5>> >>, << <<-3, 5>>, <<4, 5>> >>,
      << <<4, 5>>, <<-3, 5>> >>, << <<-4, 5>>, <<-3, 5>> >>, << <<5, 13>>, <<12, 13>> >>,
      << <<12, 13>>, <<-5, 13>> >>, << <<-5, 13>>, <<-12, 13>> >> }

\* the indexes passed to get_row and get_column of the two Matrix revisions
LayoutIndices == (0..4) \cup {U8Max}

\* factors of a lerp inside a sequence of operations
StepFactors == {<<1, 2>>, F(2)}

----------------------------------------------------------------------------
(* Matrix operations applied to a matrix built with Matrix::rows *)

InitMatrix ==
    /\ backend \in Backends
    /\ ma \in MatA
    /\ mb = IdentityValues
    /\ va = FV(0, 0, 0, 0)
    /\ vb = FV(0, 0, 0, 0)
    /\ qa = FV(0, 0, 0, 1)
    /\ qb = FV(0, 0, 0, 1)
    /\ sidx = <<0, 1, 2, 3>>
    /\ idx = 0
    /\ op = "init"
    /\ res = NoResult
    /\ calls = <<>>
    /\ ta = Transform_identity(backend)
    /\ tb = Transform_identity(backend)
    /\ depth = 0
    /\ factor = F(0)
    /\ debug_assertions = TRUE

\* a * b for a second operand b
MatrixMul ==
    /\ op = "init"
    /\ \E b \in MatB :
          /\ mb' = b
          /\ res' = Ok(MatMul(backend, Rows(backend, ma), Rows(backend, b)))
    /\ op' = "mat_mul"
    /\ UNCHANGED <<backend, ma, va, vb, qa, qb, sidx, idx, calls, ta, tb, depth, factor, debug_assertions>>

MatrixTranspose ==
    /\ op = "init"
    /\ res' = Ok(Transpose(backend, Rows(backend, ma)))
    /\ op' = "transpose"
    /\ UNCHANGED <<backend, ma, mb, va, vb, qa, qb, sidx, idx, calls, ta, tb, depth, factor, debug_assertions>>

MatrixDet ==
    /\ op = "init"
    /\ res' = Ok(Det(backend, Rows(backend, ma)))
    /\ op' = "det"
    /\ UNCHANGED <<backend, ma, mb, va, vb, qa, qb, sidx, idx, calls, ta, tb, depth, factor, debug_assertions>>

MatrixInverse ==
    /\ op = "init"
    /\ res' = Ok(Inverse(backend, Rows(backend, ma)))
    /\ op' = "inverse"
    /\ UNCHANGED <<backend, ma, mb, va, vb, qa, qb, sidx, idx, calls, ta, tb, depth, factor, debug_assertions>>

\* M * Matrix::identity()
MatrixMulIdentity ==
    /\ op = "init"
    /\ res' = Ok(MatMul(backend, Rows(backend, ma), Identity(backend)))
    /\ op' = "mul_identity"
    /\ UNCHANGED <<backend, ma, mb, va, vb, qa, qb, sidx, idx, calls, ta, tb, depth, factor, debug_assertions>>

\* Matrix::identity() * M
IdentityMulMatrix ==
    /\ op = "init"
    /\ res' = Ok(MatMul(backend, Identity(backend), Rows(backend, ma)))
    /\ op' = "identity_mul"
    /\ UNCHANGED <<backend, ma, mb, va, vb, qa, qb, sidx, idx, calls, ta, tb, depth, factor, debug_assertions>>

\* v * Matrix::identity(), v being a row of the input
VectorMulIdentity ==
    /\ op = "init"
    /\ \E i \in 1..4 :
          /\ va' = ma[i]
          /\ res' = Ok(VecMulMatrix(backend, VNew(backend, ma[i][1], ma[i][2], ma[i][3], ma[i][4]),
                                    Identity(backend)))
    /\ op' = "vec_mul_identity"
    /\ UNCHANGED <<backend, ma, mb, vb, qa, qb, sidx, idx, calls, ta, tb, depth, factor, debug_assertions>>

NextMatrix ==
    \/ MatrixMul
    \/ MatrixTranspose
    \/ MatrixDet
    \/ MatrixInverse
    \/ MatrixMulIdentity
    \/ IdentityMulMatrix
    \/ VectorMulIdentity

SpecMatrix == InitMatrix /\ [][NextMatrix]_vars

----------------------------------------------------------------------------
(* Quaternion operations *)

InitQuat ==
    /\ backend \in Backends
    /\ qa \in Quats
    /\ qb = FV(0, 0, 0, 1)
    /\ ma = IdentityValues
    /\ mb = IdentityValues
    /\ va = FV(0, 0, 0, 0)
    /\ vb = FV(0, 0, 0, 0)
    /\ sidx = <<0, 1, 2, 3>>
    /\ idx = 0
    /\ op = "init"
    /\ res = NoResult
    /\ calls = <<>>
    /\ ta = Transform_identity(backend)
    /\ tb = Transform_identity(backend)
    /\ depth = 0
    /\ factor = F(0)
    /\ debug_assertions = TRUE

\* Quaternion::new(qa) * Quaternion::new(q)
QuaternionMul ==
    /\ op = "init"
    /\ \E q \in Quats :
          /\ qb' = q
          /\ res' = Ok(QuatMul(backend, QuatNew(backend, qa[1], qa[2], qa[3], qa[4]),
                                        QuatNew(backend, q[1], q[2], q[3], q[4])))
    /\ op' = "quat_mul"
    /\ UNCHANGED <<backend, ma, mb, va, vb, qa, sidx, idx, calls, ta, tb, depth, factor, debug_assertions>>

\* Quaternion::new(qa) * Quaternion::default()
QuaternionMulDefault ==
    /\ op = "init"
    /\ res' = Ok(QuatMul(backend, QuatNew(backend, qa[1], qa[2], qa[3], qa[4]),
                                  Quaternion_default(backend)))
    /\ op' = "quat_mul_default"
    /\ UNCHANGED <<backend, ma, mb, va, vb, qa, qb, sidx, idx, calls, ta, tb, depth, factor, debug_assertions>>

\* Quaternion::default() * Quaternion::new(qa)
DefaultMulQuaternion ==
    /\ op = "init"
    /\ res' = Ok(QuatMul(backend, Quaternion_default(backend),
                                  QuatNew(backend, qa[1], qa[2], qa[3], qa[4])))
    /\ op' = "default_mul_quat"
    /\ UNCHANGED <<backend, ma, mb, va, vb, qa, qb, sidx, idx, calls, ta, tb, depth, factor, debug_assertions>>

NextQuat ==
    \/ QuaternionMul
    \/ QuaternionMulDefault
    \/ DefaultMulQuaternion

SpecQuat == InitQuat /\ [][NextQuat]_vars

----------------------------------------------------------------------------
(* Quaternion::slerp in a build with or without debug assertions *)

InitSlerp ==
    /\ backend \in Backends
    /\ qa \in SlerpQuats
    /\ debug_assertions \in BOOLEAN
    /\ qb = FV(0, 0, 0, 1)
    /\ ma = IdentityValues
    /\ mb = IdentityValues
    /\ va = FV(0, 0, 0, 0)
    /\ vb = FV(0, 0, 0, 0)
    /\ sidx = <<0, 1, 2, 3>>
    /\ idx = 0
    /\ op = "init"
    /\ res = NoResult
    /\ calls = <<>>
    /\ ta = Transform_identity(backend)
    /\ tb = Transform_identity(backend)
    /\ depth = 0
    /\ factor = F(0)

\* Quaternion::slerp(Quaternion::new(qa), Quaternion::new(q), t)
QuaternionSlerp ==
    /\ op = "init"
    /\ \E q \in SlerpQuats, t \in AngleFactors :
          /\ <<qa, q>> \in SlerpPairs
          /\ qb' = q
          /\ factor' = t
          /\ res' = Quaternion_slerp(backend, debug_assertions,
                                     QuatNew(backend, qa[1], qa[2], qa[3], qa[4]),
                                     QuatNew(backend, q[1], q[2], q[3], q[4]), t)
    /\ op' = "slerp"
    /\ UNCHANGED <<backend, ma, mb, va, vb, qa, sidx, idx, calls, ta, tb, depth, debug_assertions>>

NextSlerp == QuaternionSlerp

SpecSlerp == InitSlerp /\ [][NextSlerp]_vars

----------------------------------------------------------------------------
(* shuffle and shuffle_merge called with const arguments sidx *)

InitShuffle ==
    /\ backend \in Backends
    /\ sidx \in ShuffleArgs
    /\ va \in VecPool
    /\ vb = FV(0, 0, 0, 0)
    /\ qa = FV(0, 0, 0, 1)
    /\ qb = FV(0, 0, 0, 1)
    /\ ma = IdentityValues
    /\ mb = IdentityValues
    /\ idx = 0
    /\ op = "init"
    /\ res = NoResult
    /\ calls = <<>>
    /\ ta = Transform_identity(backend)
    /\ tb = Transform_identity(backend)
    /\ depth = 0
    /\ factor = F(0)
    /\ debug_assertions = TRUE

CallShuffle ==
    /\ op = "init"
    /\ res' = ShuffleCall(backend, VNew(backend, va[1], va[2], va[3], va[4]),
                           sidx[1], sidx[2], sidx[3], sidx[4])
    /\ op' = "shuffle"
    /\ UNCHANGED <<backend, ma, mb, va, vb, qa, qb, sidx, idx, calls, ta, tb, depth, factor, debug_assertions>>

CallShuffleMerge ==
    /\ op = "init"
    /\ \E b \in VecPool :
          /\ vb' = b
          /\ res' = ShuffleMergeCall(backend, VNew(backend, va[1], va[2], va[3], va[4]),
                                      VNew(backend, b[1], b[2], b[3], b[4]),
                                      sidx[1], sidx[2], sidx[3], sidx[4])
    /\ op' = "shuffle_merge"
    /\ UNCHANGED <<backend, ma, mb, va, qa, qb, sidx, idx, calls, ta, tb, depth, factor, debug_assertions>>

NextShuffle ==
    \/ CallShuffle
    \/ CallShuffleMerge

SpecShuffle == InitShuffle /\ [][NextShuffle]_vars

----------------------------------------------------------------------------
(* indexed access with a run-time index idx *)

InitIndex ==
    /\ backend \in Backends
    /\ idx \in 0..U8Max
    /\ ma \in MatB
    /\ mb = IdentityValues
    /\ va = FV(0, 0, 0, 0)
    /\ vb = FV(0, 0, 0, 0)
    /\ qa = FV(0, 0, 0, 1)
    /\ qb = FV(0, 0, 0, 1)
    /\ sidx = <<0, 1, 2, 3>>
    /\ op = "init"
    /\ res = NoResult
    /\ calls = <<>>
    /\ ta = Transform_identity(backend)
    /\ tb = Transform_identity(backend)
    /\ depth = 0
    /\ factor = F(0)
    /\ debug_assertions = TRUE

VectorGet ==
    /\ op = "init"
    /\ \E v \in VecPool :
          /\ va' = v
          /\ res' = Get(backend, VNew(backend, v[1], v[2], v[3], v[4]), idx)
    /\ op' = "get"
    /\ UNCHANGED <<backend, ma, mb, vb, qa, qb, sidx, idx, calls, ta, tb, depth, factor, debug_assertions>>

MatrixGetRow ==
    /\ op = "init"
    /\ res' = GetRow(backend, Rows(backend, ma), idx)
    /\ op' = "get_row"
    /\ UNCHANGED <<backend, ma, mb, va, vb, qa, qb, sidx, idx, calls, ta, tb, depth, factor, debug_assertions>>

MatrixGetColumn ==
    /\ op = "init"
    /\ res' = GetColumn(backend, Rows(backend, ma), idx)
    /\ op' = "get_column"
    /\ UNCHANGED <<backend, ma, mb, va, vb, qa, qb, sidx, idx, calls, ta, tb, depth, factor, debug_assertions>>

NextIndex ==
    \/ VectorGet
    \/ MatrixGetRow
    \/ MatrixGetColumn

SpecIndex == InitIndex /\ [][NextIndex]_vars

----------------------------------------------------------------------------
(* Vector operations applied to a Vector built with Vector::new *)

InitVector ==
    /\ backend \in Backends
    /\ va \in LaneVecs
    /\ vb = FV(0, 0, 0, 0)
    /\ ma = IdentityValues
    /\ mb = IdentityValues
    /\ qa = FV(0, 0, 0, 1)
    /\ qb = FV(0, 0, 0, 1)
    /\ sidx = <<0, 1, 2, 3>>
    /\ idx = 0
    /\ op = "init"
    /\ res = NoResult
    /\ calls = <<>>
    /\ ta = Transform_identity(backend)
    /\ tb = Transform_identity(backend)
    /\ depth = 0
    /\ factor = F(0)
    /\ debug_assertions = TRUE

\* a == b for a second operand b
VectorEq ==
    /\ op = "init"
    /\ \E b \in OperandPool \cup {va} :
          /\ vb' = b
          /\ res' = Ok(VEq(backend, VNew(backend, va[1], va[2], va[3], va[4]),
                                    VNew(backend, b[1], b[2], b[3], b[4])))
    /\ op' = "eq"
    /\ UNCHANGED <<backend, ma, mb, va, qa, qb, sidx, idx, calls, ta, tb, depth, factor, debug_assertions>>

\* Vector::lerp(a, to, t) for a target to and a factor t
VectorLerp ==
    /\ op = "init"
    /\ \E to \in OperandPool, t \in LerpFactors :
          /\ vb' = to
          /\ factor' = t
          /\ res' = Ok(VLerp(backend, VNew(backend, va[1], va[2], va[3], va[4]),
                             VNew(backend, to[1], to[2], to[3], to[4]), t))
    /\ op' = "lerp"
    /\ UNCHANGED <<backend, ma, mb, va, qa, qb, sidx, idx, calls, ta, tb, depth, debug_assertions>>

\* Point::lerp(a, to, t): a and to are Points, their lane w is 1
PointLerp ==
    /\ op = "init"
    /\ va[4] = F(1)
    /\ \E to \in {p \in OperandPool : p[4] = F(1)}, t \in LerpFactors :
          /\ vb' = to
          /\ factor' = t
          /\ res' = Ok(Point_lerp(backend, Point_new(backend, va[1], va[2], va[3]),
                                  Point_new(backend, to[1], to[2], to[3]), t))
    /\ op' = "point_lerp"
    /\ UNCHANGED <<backend, ma, mb, va, qa, qb, sidx, idx, calls, ta, tb, depth, debug_assertions>>

\* Direction::lerp(a, to, t): a and to are Directions, their lane w is 0
DirectionLerp ==
    /\ op = "init"
    /\ va[4] = F(0)
    /\ \E to \in {d \in OperandPool : d[4] = F(0)}, t \in LerpFactors :
          /\ vb' = to
          /\ factor' = t
          /\ res' = Ok(Direction_lerp(backend, Direction_new(backend, va[1], va[2], va[3]),
                                      Direction_new(backend, to[1], to[2], to[3]), t))
    /\ op' = "direction_lerp"
    /\ UNCHANGED <<backend, ma, mb, va, qa, qb, sidx, idx, calls, ta, tb, depth, debug_assertions>>

VectorHsum ==
    /\ op = "init"
    /\ res' = Ok(Hsum(backend, VNew(backend, va[1], va[2], va[3], va[4])))
    /\ op' = "hsum"
    /\ UNCHANGED <<backend, ma, mb, va, vb, qa, qb, sidx, idx, calls, ta, tb, depth, factor, debug_assertions>>

\* Vector::dot(a, b) for a second operand b
VectorDot ==
    /\ op = "init"
    /\ \E b \in OperandPool :
          /\ vb' = b
          /\ res' = Ok(VDot(backend, VNew(backend, va[1], va[2], va[3], va[4]),
                                     VNew(backend, b[1], b[2], b[3], b[4])))
    /\ op' = "dot"
    /\ UNCHANGED <<backend, ma, mb, va, qa, qb, sidx, idx, calls, ta, tb, depth, factor, debug_assertions>>

VectorLengthSquare ==
    /\ op = "init"
    /\ res' = Ok(VLengthSquare(backend, VNew(backend, va[1], va[2], va[3], va[4])))
    /\ op' = "length_square"
    /\ UNCHANGED <<backend, ma, mb, va, vb, qa, qb, sidx, idx, calls, ta, tb, depth, factor, debug_assertions>>

\* Vector::cross(a, b) for a second operand b
VectorCross ==
    /\ op = "init"
    /\ \E b \in OperandPool :
          /\ vb' = b
          /\ res' = Ok(VCross(backend, VNew(backend, va[1], va[2], va[3], va[4]),
                                       VNew(backend, b[1], b[2], b[3], b[4])))
    /\ op' = "cross"
    /\ UNCHANGED <<backend, ma, mb, va, qa, qb, sidx, idx, calls, ta, tb, depth, factor, debug_assertions>>

\* Vector::adj_add(a, b) for a second operand b
VectorAdjAdd ==
    /\ op = "init"
    /\ backend \in AdjBackends
    /\ \E b \in OperandPool \cup {va} :
          /\ vb' = b
          /\ res' = Ok(AdjAdd(backend, VNew(backend, va[1], va[2], va[3], va[4]),
                                       VNew(backend, b[1], b[2], b[3], b[4])))
    /\ op' = "adj_add"
    /\ UNCHANGED <<backend, ma, mb, va, qa, qb, sidx, idx, calls, ta, tb, depth, factor, debug_assertions>>

\* Vector::adj_sub(a, b) for a second operand b
VectorAdjSub ==
    /\ op = "init"
    /\ backend \in AdjBackends
    /\ \E b \in OperandPool \cup {va} :
          /\ vb' = b
          /\ res' = Ok(AdjSub(backend, VNew(backend, va[1], va[2], va[3], va[4]),
                                       VNew(backend, b[1], b[2], b[3], b[4])))
    /\ op' = "adj_sub"
    /\ UNCHANGED <<backend, ma, mb, va, qa, qb, sidx, idx, calls, ta, tb, depth, factor, debug_assertions>>

\* Vector::add_sub(a, b) for a second operand b
VectorAddSub ==
    /\ op = "init"
    /\ backend \in AdjBackends
    /\ \E b \in OperandPool :
          /\ vb' = b
          /\ res' = Ok(AddSub(backend, VNew(backend, va[1], va[2], va[3], va[4]),
                                       VNew(backend, b[1], b[2], b[3], b[4])))
    /\ op' = "add_sub"
    /\ UNCHANGED <<backend, ma, mb, va, qa, qb, sidx, idx, calls, ta, tb, depth, factor, debug_assertions>>

NextVector ==
    \/ VectorEq
    \/ VectorLerp
    \/ PointLerp
    \/ DirectionLerp
    \/ VectorHsum
    \/ VectorDot
    \/ VectorLengthSquare
    \/ VectorCross
    \/ VectorAdjAdd
    \/ VectorAdjSub
    \/ VectorAddSub

SpecVector == InitVector /\ [][NextVector]_vars

----------------------------------------------------------------------------
(* Transforms built by the constructors, `*` and inverse(): ta is the
   Transform being composed, tb the Transform constructed last, depth the
   number of `*` applied to ta *)

InitTransform ==
    /\ backend \in Backends
    /\ ta = Transform_identity(backend)
    /\ tb = Transform_identity(backend)
    /\ depth = 0
    /\ va = FV(0, 0, 0, 0)
    /\ vb = FV(0, 0, 0, 0)
    /\ ma = IdentityValues
    /\ mb = IdentityValues
    /\ qa = FV(0, 0, 0, 1)
    /\ qb = FV(0, 0, 0, 1)
    /\ sidx = <<0, 1, 2, 3>>
    /\ idx = 0
    /\ op = "init"
    /\ res = NoResult
    /\ calls = <<>>
    /\ factor = F(0)
    /\ debug_assertions = TRUE

TransformIdentity ==
    /\ tb' = Transform_identity(backend)
    /\ op' = "identity"
    /\ UNCHANGED <<backend, ma, mb, va, vb, qa, qb, sidx, idx, res, calls, ta, depth, factor, debug_assertions>>

TransformTranslate ==
    /\ \E d \in TranslateDirs :
          tb' = Transform_translate(backend, Direction_new(backend, d[1], d[2], d[3]))
    /\ op' = "translate"
    /\ UNCHANGED <<backend, ma, mb, va, vb, qa, qb, sidx, idx, res, calls, ta, depth, factor, debug_assertions>>

TransformScale ==
    /\ \E s \in ScaleDirs :
          tb' = Transform_scale(backend, Direction_new(backend, s[1], s[2], s[3]))
    /\ op' = "scale"
    /\ UNCHANGED <<backend, ma, mb, va, vb, qa, qb, sidx, idx, res, calls, ta, depth, factor, debug_assertions>>

TransformRotate ==
    /\ \E r \in UnitQuats :
          tb' = Transform_rotate(backend, QuatNew(backend, r[1], r[2], r[3], r[4]))
    /\ op' = "rotate"
    /\ UNCHANGED <<backend, ma, mb, va, vb, qa, qb, sidx, idx, res, calls, ta, depth, factor, debug_assertions>>

\* ta * tb
TransformMul ==
    /\ depth < MaxDepth
    /\ ta' = Transform_mul(backend, ta, tb)
    /\ depth' = depth + 1
    /\ op' = "mul"
    /\ UNCHANGED <<backend, ma, mb, va, vb, qa, qb, sidx, idx, res, calls, tb, factor, debug_assertions>>

\* ta.inverse()
TransformInverse ==
    /\ ta' = Transform_inverse(ta)
    /\ op' = "inverse"
    /\ UNCHANGED <<backend, ma, mb, va, vb, qa, qb, sidx, idx, res, calls, tb, depth, factor, debug_assertions>>

NextTransform ==
    \/ TransformIdentity
    \/ TransformTranslate
    \/ TransformScale
    \/ TransformRotate
    \/ TransformMul
    \/ TransformInverse

SpecTransform == InitTransform /\ [][NextTransform]_vars

----------------------------------------------------------------------------
(* a translation applied to a Point or Direction va: va * translate(d).matrix
   and va * translate(d).inverse().matrix; vb keeps the lanes of d *)

InitTranslate ==
    /\ backend \in Backends
    /\ va \in AffineVecs
    /\ vb = FV(0, 0, 0, 0)
    /\ ma = IdentityValues
    /\ mb = IdentityValues
    /\ qa = FV(0, 0, 0, 1)
    /\ qb = FV(0, 0, 0, 1)
    /\ sidx = <<0, 1, 2, 3>>
    /\ idx = 0
    /\ op = "init"
    /\ res = NoResult
    /\ calls = <<>>
    /\ ta = Transform_identity(backend)
    /\ tb = Transform_identity(backend)
    /\ depth = 0
    /\ factor = F(0)
    /\ debug_assertions = TRUE

TranslateApply ==
    /\ op = "init"
    /\ \E d \in ApplyDirs :
          LET dir == Direction_new(backend, d[1], d[2], d[3])
          IN  /\ vb' = <<VX(backend, dir), VY(backend, dir), VZ(backend, dir), VW(backend, dir)>>
              /\ tb' = Transform_translate(backend, dir)
              /\ res' = Ok(VecMulMatrix(backend, VNew(backend, va[1], va[2], va[3], va[4]),
                                        Transform_translate(backend, dir).matrix))
    /\ op' = "translate_apply"
    /\ UNCHANGED <<backend, ma, mb, va, qa, qb, sidx, idx, calls, ta, depth, factor, debug_assertions>>

TranslateInverseApply ==
    /\ op = "init"
    /\ \E d \in ApplyDirs :
          LET dir == Direction_new(backend, d[1], d[2], d[3])
          IN  /\ vb' = <<VX(backend, dir), VY(backend, dir), VZ(backend, dir), VW(backend, dir)>>
              /\ tb' = Transform_inverse(Transform_translate(backend, dir))
              /\ res' = Ok(VecMulMatrix(backend, VNew(backend, va[1], va[2], va[3], va[4]),
                                        Transform_inverse(Transform_translate(backend, dir)).matrix))
    /\ op' = "translate_inverse_apply"
    /\ UNCHANGED <<backend, ma, mb, va, qa, qb, sidx, idx, calls, ta, depth, factor, debug_assertions>>

NextTranslate ==
    \/ TranslateApply
    \/ TranslateInverseApply

SpecTranslate == InitTranslate /\ [][NextTranslate]_vars

----------------------------------------------------------------------------
(* a sequence of set_x / set_y / set_z / set_w calls on one Vector: va is the
   Vector, vb the lanes it was constructed with, calls the <<lane, val>>
   arguments of the calls made so far *)

InitSetters ==
    /\ backend \in Backends
    /\ \E v \in VecPool :
          /\ va = VNew(backend, v[1], v[2], v[3], v[4])
          /\ vb = v
    /\ ma = IdentityValues
    /\ mb = IdentityValues
    /\ qa = FV(0, 0, 0, 1)
    /\ qb = FV(0, 0, 0, 1)
    /\ sidx = <<0, 1, 2, 3>>
    /\ idx = 0
    /\ op = "init"
    /\ res = NoResult
    /\ calls = <<>>
    /\ ta = Transform_identity(backend)
    /\ tb = Transform_identity(backend)
    /\ depth = 0
    /\ factor = F(0)
    /\ debug_assertions = TRUE

VectorSetX ==
    /\ Len(calls) < MaxCalls
    /\ \E val \in SetValues :
          /\ va' = SetX(backend, va, val)
          /\ calls' = Append(calls, <<0, val>>)
    /\ op' = "set_x"
    /\ UNCHANGED <<backend, ma, mb, vb, qa, qb, sidx, idx, res, ta, tb, depth, factor, debug_assertions>>

VectorSetY ==
    /\ Len(calls) < MaxCalls
    /\ \E val \in SetValues :
          /\ va' = SetY(backend, va, val)
          /\ calls' = Append(calls, <<1, val>>)
    /\ op' = "set_y"
    /\ UNCHANGED <<backend, ma, mb, vb, qa, qb, sidx, idx, res, ta, tb, depth, factor, debug_assertions>>

VectorSetZ ==
    /\ Len(calls) < MaxCalls
    /\ \E val \in SetValues :
          /\ va' = SetZ(backend, va, val)
          /\ calls' = Append(calls, <<2, val>>)
    /\ op' = "set_z"
    /\ UNCHANGED <<backend, ma, mb, vb, qa, qb, sidx, idx, res, ta, tb, depth, factor, debug_assertions>>

VectorSetW ==
    /\ Len(calls) < MaxCalls
    /\ \E val \in SetValues :
          /\ va' = SetW(backend, va, val)
          /\ calls' = Append(calls, <<3, val>>)
    /\ op' = "set_w"
    /\ UNCHANGED <<backend, ma, mb, vb, qa, qb, sidx, idx, res, ta, tb, depth, factor, debug_assertions>>

NextSetters ==
    \/ VectorSetX
    \/ VectorSetY
    \/ VectorSetZ
    \/ VectorSetW

SpecSetters == InitSetters /\ [][NextSetters]_vars

----------------------------------------------------------------------------
(* a sequence of public operations on one Point: va is the Point, depth the
   number of operations applied *)

InitPoint ==
    /\ backend \in Backends
    /\ va \in {Point_new(backend, c[1], c[2], c[3]) : c \in PointCoords}
              \cup {Point_default(backend)}
    /\ vb = FV(0, 0, 0, 0)
    /\ ma = IdentityValues
    /\ mb = IdentityValues
    /\ qa = FV(0, 0, 0, 1)
    /\ qb = FV(0, 0, 0, 1)
    /\ sidx = <<0, 1, 2, 3>>
    /\ idx = 0
    /\ op = "init"
    /\ res = NoResult
    /\ calls = <<>>
    /\ ta = Transform_identity(backend)
    /\ tb = Transform_identity(backend)
    /\ depth = 0
    /\ factor = F(0)
    /\ debug_assertions = TRUE

\* point + Direction::new(d)
PointAddDirection ==
    /\ depth < MaxDepth
    /\ \E d \in TranslateDirs :
          /\ vb' = Direction_new(backend, d[1], d[2], d[3])
          /\ va' = Point_add(backend, va, Direction_new(backend, d[1], d[2], d[3]))
    /\ op' = "add"
    /\ depth' = depth + 1
    /\ UNCHANGED <<backend, ma, mb, qa, qb, sidx, idx, res, calls, ta, tb, factor, debug_assertions>>

\* point - Direction::new(d)
PointSubDirection ==
    /\ depth < MaxDepth
    /\ \E d \in TranslateDirs :
          /\ vb' = Direction_new(backend, d[1], d[2], d[3])
          /\ va' = Point_sub(backend, va, Direction_new(backend, d[1], d[2], d[3]))
    /\ op' = "sub"
    /\ depth' = depth + 1
    /\ UNCHANGED <<backend, ma, mb, qa, qb, sidx, idx, res, calls, ta, tb, factor, debug_assertions>>

\* point.set_x(val), point.set_y(val), point.set_z(val)
PointSet ==
    /\ depth < MaxDepth
    /\ \E lane \in {"x", "y", "z"} :
          /\ va' = Point_set(backend, va, lane, F(7))
          /\ op' = "set_" \o lane
    /\ depth' = depth + 1
    /\ UNCHANGED <<backend, ma, mb, vb, qa, qb, sidx, idx, res, calls, ta, tb, factor, debug_assertions>>

\* point.shuffle::<X, Y, Z>()
PointShuffle ==
    /\ depth < MaxDepth
    /\ \E a \in ShuffleTriples :
          /\ sidx' = <<a[1], a[2], a[3], 3>>
          /\ va' = Point_shuffle(backend, va, a[1], a[2], a[3])
    /\ op' = "shuffle"
    /\ depth' = depth + 1
    /\ UNCHANGED <<backend, ma, mb, vb, qa, qb, idx, res, calls, ta, tb, factor, debug_assertions>>

\* Point::lerp(point, Point::new(c), t)
PointLerpTo ==
    /\ depth < MaxDepth
    /\ \E c \in {<<F(1), F(2), F(3)>>}, t \in StepFactors :
          /\ vb' = Point_new(backend, c[1], c[2], c[3])
          /\ factor' = t
          /\ va' = Point_lerp(backend, va, Point_new(backend, c[1], c[2], c[3]), t)
    /\ op' = "lerp"
    /\ depth' = depth + 1
    /\ UNCHANGED <<backend, ma, mb, qa, qb, sidx, idx, res, calls, ta, tb, debug_assertions>>

\* point.transform_to(&system)
PointTransformTo ==
    /\ depth < MaxDepth
    /\ \E system \in CoordinateSystems(backend) :
          /\ ma' = <<system.x, system.y, system.z, FV(0, 0, 0, 0)>>
          /\ va' = Point_transform_to(backend, va, system)
    /\ op' = "transform_to"
    /\ depth' = depth + 1
    /\ UNCHANGED <<backend, mb, vb, qa, qb, sidx, idx, res, calls, ta, tb, factor, debug_assertions>>

\* point.transform_from(&system)
PointTransformFrom ==
    /\ depth < MaxDepth
    /\ \E system \in CoordinateSystems(backend) :
          /\ ma' = <<system.x, system.y, system.z, FV(0, 0, 0, 0)>>
          /\ va' = Point_transform_from(backend, va, system)
    /\ op' = "transform_from"
    /\ depth' = depth + 1
    /\ UNCHANGED <<backend, mb, vb, qa, qb, sidx, idx, res, calls, ta, tb, factor, debug_assertions>>

NextPoint ==
    \/ PointAddDirection
    \/ PointSubDirection
    \/ PointSet
    \/ PointShuffle
    \/ PointLerpTo
    \/ PointTransformTo
    \/ PointTransformFrom

SpecPoint == InitPoint /\ [][NextPoint]_vars

----------------------------------------------------------------------------
(* a sequence of public operations on one Normal: va is the Normal, vb the
   Normal before the last operation, depth the number of operations applied *)

InitNormal ==
    /\ backend \in Backends
    /\ va \in {Normal_new(backend, c[1], c[2], c[3]) : c \in PointCoords}
    /\ vb = FV(0, 0, 0, 0)
    /\ ma = IdentityValues
    /\ mb = IdentityValues
    /\ qa = FV(0, 0, 0, 1)
    /\ qb = FV(0, 0, 0, 1)
    /\ sidx = <<0, 1, 2, 3>>
    /\ idx = 0
    /\ op = "init"
    /\ res = NoResult
    /\ calls = <<>>
    /\ ta = Transform_identity(backend)
    /\ tb = Transform_identity(backend)
    /\ depth = 0
    /\ factor = F(0)
    /\ debug_assertions = TRUE

\* normal + Normal::new(1, 2, 3)
NormalAdd ==
    /\ depth < MaxDepth
    /\ va' = Normal_add(backend, va, Normal_new(backend, F(1), F(2), F(3)))
    /\ vb' = va
    /\ op' = "add"
    /\ depth' = depth + 1
    /\ UNCHANGED <<backend, ma, mb, qa, qb, sidx, idx, res, calls, ta, tb, factor, debug_assertions>>

\* normal - Normal::new(1, 2, 3)
NormalSub ==
    /\ depth < MaxDepth
    /\ va' = Normal_sub(backend, va, Normal_new(backend, F(1), F(2), F(3)))
    /\ vb' = va
    /\ op' = "sub"
    /\ depth' = depth + 1
    /\ UNCHANGED <<backend, ma, mb, qa, qb, sidx, idx, res, calls, ta, tb, factor, debug_assertions>>

\* -normal
NormalNeg ==
    /\ depth < MaxDepth
    /\ va' = Normal_neg(backend, va)
    /\ vb' = va
    /\ op' = "neg"
    /\ depth' = depth + 1
    /\ UNCHANGED <<backend, ma, mb, qa, qb, sidx, idx, res, calls, ta, tb, factor, debug_assertions>>

\* normal * k
NormalMulScalar ==
    /\ depth < MaxDepth
    /\ \E k \in NormalScalars :
          /\ factor' = k
          /\ va' = Normal_mul_f32(backend, va, k)
    /\ vb' = va
    /\ op' = "mul_f32"
    /\ depth' = depth + 1
    /\ UNCHANGED <<backend, ma, mb, qa, qb, sidx, idx, res, calls, ta, tb, debug_assertions>>

\* normal / k
NormalDivScalar ==
    /\ depth < MaxDepth
    /\ \E k \in NormalScalars :
          /\ factor' = k
          /\ va' = Normal_div_f32(backend, va, k)
    /\ vb' = va
    /\ op' = "div_f32"
    /\ depth' = depth + 1
    /\ UNCHANGED <<backend, ma, mb, qa, qb, sidx, idx, res, calls, ta, tb, debug_assertions>>

\* normal.in_hemisphere(Direction::new(d))
NormalInHemisphere ==
    /\ depth < MaxDepth
    /\ \E d \in PointCoords :
          va' = Normal_in_hemisphere(backend, va, Direction_new(backend, d[1], d[2], d[3]))
    /\ vb' = va
    /\ op' = "in_hemisphere"
    /\ depth' = depth + 1
    /\ UNCHANGED <<backend, ma, mb, qa, qb, sidx, idx, res, calls, ta, tb, factor, debug_assertions>>

\* normal * transform
NormalMulTransform ==
    /\ depth < MaxDepth
    /\ \E transform \in NormalTransforms(backend) :
          /\ tb' = transform
          /\ va' = Normal_mul_transform(backend, va, transform)
    /\ vb' = va
    /\ op' = "mul_transform"
    /\ depth' = depth + 1
    /\ UNCHANGED <<backend, ma, mb, qa, qb, sidx, idx, res, calls, ta, factor, debug_assertions>>

NextNormal ==
    \/ NormalAdd
    \/ NormalSub
    \/ NormalNeg
    \/ NormalMulScalar
    \/ NormalDivScalar
    \/ NormalInHemisphere
    \/ NormalMulTransform

SpecNormal == InitNormal /\ [][NextNormal]_vars

----------------------------------------------------------------------------
(* spherical coordinates: va holds the arguments <<sin, cos, cos phi, sin phi>>
   of Direction::spherical and CoordinateSystem::from_spherical, sin and cos
   being those of the polar angle *)

InitSpherical ==
    /\ backend \in Backends
    /\ va \in {<<polar[2], polar[1], azimuth[1], azimuth[2]>> :
                  polar \in CirclePoints, azimuth \in CirclePoints}
    /\ vb = FV(0, 0, 0, 0)
    /\ ma = IdentityValues
    /\ mb = IdentityValues
    /\ qa = FV(0, 0, 0, 1)
    /\ qb = FV(0, 0, 0, 1)
    /\ sidx = <<0, 1, 2, 3>>
    /\ idx = 0
    /\ op = "init"
    /\ res = NoResult
    /\ calls = <<>>
    /\ ta = Transform_identity(backend)
    /\ tb = Transform_identity(backend)
    /\ depth = 0
    /\ factor = F(0)
    /\ debug_assertions = TRUE

\* Direction::spherical(sin, cos, phi)
DirectionSpherical ==
    /\ op = "init"
    /\ res' = Ok(Direction_spherical(backend, va[1], va[2], <<va[3], va[4]>>))
    /\ op' = "spherical"
    /\ UNCHANGED <<backend, ma, mb, va, vb, qa, qb, sidx, idx, calls, ta, tb, depth, factor, debug_assertions>>

\* system.from_spherical(sin, cos, phi); ma holds the basis of the system
CoordinateSystemFromSpherical ==
    /\ op = "init"
    /\ \E system \in CoordinateSystems(backend) :
          /\ ma' = <<system.x, system.y, system.z, FV(0, 0, 0, 0)>>
          /\ res' = Ok(CoordinateSystem_from_spherical(backend, system, va[1], va[2],
                                                        <<va[3], va[4]>>))
    /\ op' = "from_spherical"
    /\ UNCHANGED <<backend, mb, va, vb, qa, qb, sidx, idx, calls, ta, tb, depth, factor, debug_assertions>>

NextSpherical ==
    \/ DirectionSpherical
    \/ CoordinateSystemFromSpherical

SpecSpherical == InitSpherical /\ [][NextSpherical]_vars

----------------------------------------------------------------------------
(* the two Matrix revisions built from the same values: res holds the pair
   <<result of matrix.rs, result of base/matrix.rs>> *)

InitLayout ==
    /\ backend \in LayoutBackends
    /\ ma \in MatA
    /\ mb = IdentityValues
    /\ va = FV(0, 0, 0, 0)
    /\ vb = FV(0, 0, 0, 0)
    /\ qa = FV(0, 0, 0, 1)
    /\ qb = FV(0, 0, 0, 1)
    /\ sidx = <<0, 1, 2, 3>>
    /\ idx = 0
    /\ op = "init"
    /\ res = NoResult
    /\ calls = <<>>
    /\ ta = Transform_identity(backend)
    /\ tb = Transform_identity(backend)
    /\ depth = 0
    /\ factor = F(0)
    /\ debug_assertions = TRUE

\* Matrix::new(a) * Matrix::new(b) and Matrix::rows(a) * Matrix::rows(b)
LayoutMul ==
    /\ op = "init"
    /\ \E b \in MatB :
          /\ mb' = b
          /\ res' = Ok(<< ColumnMajor_mul(backend, ColumnMajor_new(backend, ma),
                                          ColumnMajor_new(backend, b)),
                          MatMul(backend, Rows(backend, ma), Rows(backend, b)) >>)
    /\ op' = "layout_mul"
    /\ UNCHANGED <<backend, ma, va, vb, qa, qb, sidx, idx, calls, ta, tb, depth, factor, debug_assertions>>

LayoutTranspose ==
    /\ op = "init"
    /\ res' = Ok(<< ColumnMajor_transpose(backend, ColumnMajor_new(backend, ma)),
                    Transpose(backend, Rows(backend, ma)) >>)
    /\ op' = "layout_transpose"
    /\ UNCHANGED <<backend, ma, mb, va, vb, qa, qb, sidx, idx, calls, ta, tb, depth, factor, debug_assertions>>

LayoutGetRow ==
    /\ op = "init"
    /\ \E i \in LayoutIndices :
          /\ idx' = i
          /\ res' = Ok(<< ColumnMajor_get_row(backend, ColumnMajor_new(backend, ma), i),
                          GetRow(backend, Rows(backend, ma), i) >>)
    /\ op' = "layout_get_row"
    /\ UNCHANGED <<backend, ma, mb, va, vb, qa, qb, sidx, calls, ta, tb, depth, factor, debug_assertions>>

LayoutGetColumn ==
    /\ op = "init"
    /\ \E i \in LayoutIndices :
          /\ idx' = i
          /\ res' = Ok(<< ColumnMajor_get_column(backend, ColumnMajor_new(backend, ma), i),
                          GetColumn(backend, Rows(backend, ma), i) >>)
    /\ op' = "layout_get_column"
    /\ UNCHANGED <<backend, ma, mb, va, vb, qa, qb, sidx, calls, ta, tb, depth, factor, debug_assertions>>

NextLayout ==
    \/ LayoutMul
    \/ LayoutTranspose
    \/ LayoutGetRow
    \/ LayoutGetColumn

SpecLayout == InitLayout /\ [][NextLayout]_vars

----------------------------------------------------------------------------
(* Vector * Matrix next to Matrix * Matrix *)

InitVecMat ==
    /\ backend \in Backends
    /\ ma \in MatA
    /\ mb = IdentityValues
    /\ va = FV(0, 0, 0, 0)
    /\ vb = FV(0, 0, 0, 0)
    /\ qa = FV(0, 0, 0, 1)
    /\ qb = FV(0, 0, 0, 1)
    /\ sidx = <<0, 1, 2, 3>>
    /\ idx = 0
    /\ op = "init"
    /\ res = NoResult
    /\ calls = <<>>
    /\ ta = Transform_identity(backend)
    /\ tb = Transform_identity(backend)
    /\ depth = 0
    /\ factor = F(0)
    /\ debug_assertions = TRUE

\* v * A
VectorMulMatrix ==
    /\ op = "init"
    /\ \E v \in VecPool :
          /\ va' = v
          /\ res' = Ok(VecMulMatrix(backend, VNew(backend, v[1], v[2], v[3], v[4]),
                                    Rows(backend, ma)))
    /\ op' = "vec_mul_matrix"
    /\ UNCHANGED <<backend, ma, mb, vb, qa, qb, sidx, idx, calls, ta, tb, depth, factor, debug_assertions>>

\* A.get_row(i) * B next to (A * B).get_row(i)
RowMulMatrix ==
    /\ op = "init"
    /\ \E i \in 0..3, b \in MatB :
          /\ idx' = i
          /\ mb' = b
          /\ res' = Ok(<< VecMulMatrix(backend, GetRow(backend, Rows(backend, ma), i).val,
                                       Rows(backend, b)),
                          GetRow(backend, MatMul(backend, Rows(backend, ma), Rows(backend, b)),
                                 i).val >>)
    /\ op' = "row_mul_matrix"
    /\ UNCHANGED <<backend, ma, va, vb, qa, qb, sidx, calls, ta, tb, depth, factor, debug_assertions>>

\* (v * A) * B next to v * (A * B)
VectorMulTwice ==
    /\ op = "init"
    /\ \E v \in VecPool, b \in MatB :
          /\ va' = v
          /\ mb' = b
          /\ res' = Ok(<< VecMulMatrix(backend,
                                       VecMulMatrix(backend, VNew(backend, v[1], v[2], v[3], v[4]),
                                                    Rows(backend, ma)),
                                       Rows(backend, b)),
                          VecMulMatrix(backend, VNew(backend, v[1], v[2], v[3], v[4]),
                                       MatMul(backend, Rows(backend, ma), Rows(backend, b))) >>)
    /\ op' = "vec_mul_twice"
    /\ UNCHANGED <<backend, ma, vb, qa, qb, sidx, idx, calls, ta, tb, depth, factor, debug_assertions>>

NextVecMat ==
    \/ VectorMulMatrix
    \/ RowMulMatrix
    \/ VectorMulTwice

SpecVecMat == InitVecMat /\ [][NextVecMat]_vars



----------------------------------------------------------------------------
(* reference definitions the claims are stated against *)

\* entry (i, j) of the standard product of two 4x4 value arrays, i, j in 1..4
ProductEntry(a, b, i, j) ==
    FAdd(FAdd(FMul(a[i][1], b[1][j]), FMul(a[i][2], b[2][j])),
         FAdd(FMul(a[i][3], b[3][j]), FMul(a[i][4], b[4][j])))

Product(a, b) == [i \in 1..4 |-> [j \in 1..4 |-> ProductEntry(a, b, i, j)]]

\* 3x3 determinant of rows r1, r2, r3 and columns c1, c2, c3 of a
Minor3(a, r1, r2, r3, c1, c2, c3) ==
    FAdd(FSub(FMul(a[r1][c1], FSub(FMul(a[r2][c2], a[r3][c3]), FMul(a[r2][c3], a[r3][c2]))),
              FMul(a[r1][c2], FSub(FMul(a[r2][c1], a[r3][c3]), FMul(a[r2][c3], a[r3][c1])))),
         FMul(a[r1][c3], FSub(FMul(a[r2][c1], a[r3][c2]), FMul(a[r2][c2], a[r3][c1]))))

\* cofactor expansion of the 4x4 determinant along the first row
CofactorDet(a) ==
    FAdd(FSub(FMul(a[1][1], Minor3(a, 2, 3, 4, 2, 3, 4)),
              FMul(a[1][2], Minor3(a, 2, 3, 4, 1, 3, 4))),
         FSub(FMul(a[1][3], Minor3(a, 2, 3, 4, 1, 2, 4)),
              FMul(a[1][4], Minor3(a, 2, 3, 4, 1, 2, 3))))

\* the values of a Matrix read back through get_row(i).get(j)
ValuesOf(be, m) == [i \in 1..4 |-> [j \in 1..4 |-> Get(be, GetRow(be, m, i - 1).val, j - 1).val]]

OffDiagonalBlocksNonzero(a) ==
    /\ \E i \in 1..2, j \in 3..4 : a[i][j] # F(0)
    /\ \E i \in 3..4, j \in 1..2 : a[i][j] # F(0)

\* the lanes of a Vector read through x(), y(), z(), w()
LanesOf(be, v) == <<VX(be, v), VY(be, v), VZ(be, v), VW(be, v)>>

----------------------------------------------------------------------------
(* claims about Matrix *)

\* C1: for every Matrix M with nonzero determinant, M * M.inverse() equals
\* Matrix::identity(), also when the off-diagonal 2x2 blocks of M are nonzero.
C1_InverseTimesMatrixIsIdentity ==
    (op = "inverse" /\ CofactorDet(ma) # F(0))
        => ValuesOf(backend, MatMul(backend, Rows(backend, ma), res.val)) = IdentityValues

\* C3: A * B is the standard matrix product: entry (i, j) of the result, read
\* through get_row(i), is the sum over k of A[i][k] * B[k][j].
C3_MulIsStandardProduct ==
    op = "mat_mul" => ValuesOf(backend, res.val) = Product(ma, mb)

C3_Witness ==
    /\ op = "mat_mul"
    /\ ma = TestMatrix
    /\ mb = GeneralMatrix
    /\ ValuesOf(backend, res.val) = Product(TestMatrix, GeneralMatrix)
    /\ Product(TestMatrix, GeneralMatrix) # Product(GeneralMatrix, TestMatrix)

\* C4: M.det() equals the determinant of the 4x4 matrix given by cofactor
\* expansion of the entries passed to Matrix::rows; det(identity()) is 1 and
\* det is zero exactly for singular matrices.
C4_DetIsDeterminant ==
    op = "det" =>
        /\ res.val = CofactorDet(ma)
        /\ (ma = IdentityValues => res.val = F(1))

C4_Witness ==
    /\ op = "det"
    /\ OffDiagonalBlocksNonzero(ma)
    /\ res.val = CofactorDet(ma)
    /\ res.val \notin {F(0), F(1)}

\* C5: entry (i, j) of M.transpose() is entry (j, i) of M, row i of the
\* transpose is column i of M, and transposing twice gives M back.
C5_TransposeSwapsEntries ==
    op = "transpose" =>
        /\ \A i \in 1..4, j \in 1..4 : ValuesOf(backend, res.val)[i][j] = ma[j][i]
        /\ \A i \in 0..3 :
              GetRow(backend, res.val, i) = GetColumn(backend, Rows(backend, ma), i)
        /\ Transpose(backend, res.val) = Rows(backend, ma)

C5_Witness ==
    /\ op = "transpose"
    /\ ma = TestMatrix
    /\ ValuesOf(backend, res.val)
          = <<FV(1, 5, 9, 13), FV(2, 6, 10, 14), FV(3, 7, 11, 15), FV(4, 8, 12, 16)>>

\* C6: Matrix::identity() is a two-sided identity of Matrix * Matrix, and
\* v * identity() == v for every Vector v.
C6_IdentityIsNeutral ==
    /\ op = "mul_identity" => ValuesOf(backend, res.val) = ma
    /\ op = "identity_mul" => ValuesOf(backend, res.val) = ma
    /\ op = "vec_mul_identity" => LanesOf(backend, res.val) = va

C6_Witness ==
    /\ op = "vec_mul_identity"
    /\ va = FV(13, 14, 15, 16)
    /\ LanesOf(backend, res.val) = va

----------------------------------------------------------------------------
(* claims about Quaternion *)

\* the Hamilton product of p = (x1, y1, z1, w1) and q = (x2, y2, z2, w2)
Hamilton(p, q) ==
    << FSub(FAdd(FAdd(FMul(p[4], q[1]), FMul(p[1], q[4])), FMul(p[2], q[3])), FMul(p[3], q[2])),
       FSub(FAdd(FAdd(FMul(p[4], q[2]), FMul(p[2], q[4])), FMul(p[3], q[1])), FMul(p[1], q[3])),
       FSub(FAdd(FAdd(FMul(p[4], q[3]), FMul(p[3], q[4])), FMul(p[1], q[2])), FMul(p[2], q[1])),
       FSub(FSub(FSub(FMul(p[4], q[4]), FMul(p[1], q[1])), FMul(p[2], q[2])), FMul(p[3], q[3])) >>

\* C2: for all Quaternions p and q, p * q is the Hamilton product of p and q.
C2_MulIsHamiltonProduct ==
    op = "quat_mul" => LanesOf(backend, res.val) = Hamilton(qa, qb)

----------------------------------------------------------------------------
(* claims about shuffle, shuffle_merge and indexed access *)

ValidShuffleArgs == \A k \in 1..4 : sidx[k] \in 0..3

\* C7: for indices X, Y, Z, W in 0..3, v.shuffle::<X, Y, Z, W>() is
\* (v[X], v[Y], v[Z], v[W]) in every backend, and shuffle::<0, 1, 2, 3>() is v.
C7_ShuffleSelectsLanes ==
    (op = "shuffle" /\ ValidShuffleArgs) =>
        /\ res.status = "ok"
        /\ LanesOf(backend, res.val)
              = <<va[sidx[1] + 1], va[sidx[2] + 1], va[sidx[3] + 1], va[sidx[4] + 1]>>
        /\ (sidx = <<0, 1, 2, 3>> => LanesOf(backend, res.val) = va)

C7_Witness ==
    /\ op = "shuffle"
    /\ backend = "x86"
    /\ va = FV(1, 2, 3, 4)
    /\ sidx = <<1, 2, 3, 0>>
    /\ LanesOf(backend, res.val) = FV(2, 3, 4, 1)

\* C8: for indices X, Y, Z, W in 0..3, shuffle_merge::<X, Y, Z, W>(a, b) is
\* (a[X], a[Y], b[Z], b[W]) in every backend.
C8_ShuffleMergeSelectsLanes ==
    (op = "shuffle_merge" /\ ValidShuffleArgs) =>
        /\ res.status = "ok"
        /\ LanesOf(backend, res.val)
              = <<va[sidx[1] + 1], va[sidx[2] + 1], vb[sidx[3] + 1], vb[sidx[4] + 1]>>

C8_Witness ==
    /\ op = "shuffle_merge"
    /\ backend = "wasm"
    /\ va = FV(1, 2, 3, 4)
    /\ vb = FV(-1, 2, -3, 4)
    /\ sidx = <<3, 1, 2, 0>>
    /\ LanesOf(backend, res.val) = FV(4, 2, -3, -1)

\* C9: a shuffle or shuffle_merge with an index of 4 or more is rejected at
\* compile time in every backend and never executes a lane read;
\* is_shuffle_arg is true exactly when all four indices are below 4.
C9_BadShuffleRejectedAtCompileTime ==
    /\ is_shuffle_arg(sidx[1], sidx[2], sidx[3], sidx[4]) <=> ValidShuffleArgs
    /\ (op \in {"shuffle", "shuffle_merge"} /\ ~ValidShuffleArgs) =>
          /\ res.status = "compile_error"
          /\ res.reads = 0

\* C10: Vector::get, Matrix::get_row and Matrix::get_column panic for every
\* idx > 3 and return no value; for idx in 0..3 get equals the named accessor
\* and get_row / get_column return the idx-th row / column of the values
\* passed to Matrix::rows.
C10_IndexedAccessValidates ==
    /\ op = "get" =>
          IF idx > 3 THEN res = Panic
          ELSE /\ res.status = "ok"
               /\ res.val = LanesOf(backend, VNew(backend, va[1], va[2], va[3], va[4]))[idx + 1]
               /\ res.val = va[idx + 1]
    /\ op = "get_row" =>
          IF idx > 3 THEN res = Panic
          ELSE /\ res.status = "ok"
               /\ LanesOf(backend, res.val) = ma[idx + 1]
    /\ op = "get_column" =>
          IF idx > 3 THEN res = Panic
          ELSE /\ res.status = "ok"
               /\ LanesOf(backend, res.val)
                     = <<ma[1][idx + 1], ma[2][idx + 1], ma[3][idx + 1], ma[4][idx + 1]>>

C10_Witness ==
    /\ op = "get_column"
    /\ idx = 4
    /\ res = Panic

----------------------------------------------------------------------------
(* claims about Vector setters *)

\* the value lane holds after the calls of log, when it held initial before
RECURSIVE LastSet(_, _, _)
LastSet(log, lane, initial) ==
    IF log = <<>> THEN initial
    ELSE LET c == log[Len(log)]
         IN  IF c[1] = lane THEN c[2]
             ELSE LastSet(SubSeq(log, 1, Len(log) - 1), lane, initial)

SetterOps == {"set_x", "set_y", "set_z", "set_w"}

\* C11: each of set_x, set_y, set_z, set_w changes only its own lane: after any
\* sequence of setter calls every lane, read through x(), y(), z(), w(), holds
\* the value of the most recent setter call for that lane, or the value the
\* Vector was constructed with if there was none, in every backend.
C11_SettersChangeOwnLaneOnly ==
    op \in SetterOps =>
        \A i \in 0..3 : LanesOf(backend, va)[i + 1] = LastSet(calls, i, vb[i + 1])

C11_Witness ==
    /\ backend = "x86"
    /\ op = "set_y"
    /\ vb = FV(1, 2, 3, 4)
    /\ calls = << <<1, F(7)>>, <<3, F(7)>>, <<1, F(-8)>> >>
    /\ LanesOf(backend, va) = <<F(1), F(-8), F(3), F(7)>>

----------------------------------------------------------------------------
(* claims about Vector operations *)

\* C12: Vector equality is exact componentwise equality in every backend:
\* a == b holds if and only if all four lanes of a equal the corresponding
\* lanes of b, so two Vectors that agree in only some lanes compare unequal,
\* and scalar, x86 and wasm give the same verdict.
C12_EqIsComponentwise ==
    op = "eq" => res.val = (\A i \in 1..4 : va[i] = vb[i])

\* lane i of from + (to - from) * t
LerpLane(from, to, t, i) == FAdd(from[i], FMul(FSub(to[i], from[i]), t))

\* C13: Vector::lerp(from, to, t) is linear interpolation from `from` to `to`
\* with no clamping: every lane of the result is from + (to - from) * t, so
\* t = 0 gives from and t = 1 gives to; Point::lerp and Direction::lerp
\* forward to it with the same meaning.
C13_LerpInterpolatesFromTo ==
    op \in {"lerp", "point_lerp", "direction_lerp"} =>
        /\ \A i \in 1..4 : LanesOf(backend, res.val)[i] = LerpLane(va, vb, factor, i)
        /\ factor = F(0) => LanesOf(backend, res.val) = va
        /\ factor = F(1) => LanesOf(backend, res.val) = vb

\* a[1] * b[1] + a[2] * b[2] + a[3] * b[3] + a[4] * b[4]
SumOfProducts(a, b) ==
    FAdd(FAdd(FAdd(FMul(a[1], b[1]), FMul(a[2], b[2])), FMul(a[3], b[3])), FMul(a[4], b[4]))

\* C14: v.hsum() is the sum x + y + z + w of all four lanes and the scalar, x86
\* and wasm reductions return the same value; dot(a, b) == hsum(a * b) ==
\* dot(b, a), and length_square(v) includes lane w.
C14_HsumSumsAllLanes ==
    LET a == VNew(backend, va[1], va[2], va[3], va[4])
        b == VNew(backend, vb[1], vb[2], vb[3], vb[4])
    IN  /\ op = "hsum" =>
              /\ res.val = FAdd(FAdd(FAdd(va[1], va[2]), va[3]), va[4])
              /\ \A be \in Backends :
                     Hsum(be, VNew(be, va[1], va[2], va[3], va[4])) = res.val
        /\ op = "dot" =>
              /\ res.val = Hsum(backend, VMul(backend, a, b))
              /\ res.val = VDot(backend, b, a)
              /\ res.val = SumOfProducts(va, vb)
        /\ op = "length_square" => res.val = SumOfProducts(va, va)

C14_Witness ==
    /\ op = "hsum"
    /\ backend = "wasm"
    /\ va = FV(-1, 2, -3, 4)
    /\ res.val = F(2)

\* C15: for Vectors a, b with finite lanes, Vector::cross(a, b) has the lanes
\* (a.y * b.z - a.z * b.y, a.z * b.x - a.x * b.z, a.x * b.y - a.y * b.x) in
\* x, y, z, and cross(a, b) == -cross(b, a) lane by lane.
C15_CrossIsCrossProduct ==
    LET a == VNew(backend, va[1], va[2], va[3], va[4])
        b == VNew(backend, vb[1], vb[2], vb[3], vb[4])
    IN  op = "cross" =>
            /\ VX(backend, res.val) = FSub(FMul(va[2], vb[3]), FMul(va[3], vb[2]))
            /\ VY(backend, res.val) = FSub(FMul(va[3], vb[1]), FMul(va[1], vb[3]))
            /\ VZ(backend, res.val) = FSub(FMul(va[1], vb[2]), FMul(va[2], vb[1]))
            /\ LanesOf(backend, res.val) = LanesOf(backend, VNeg(backend, VCross(backend, b, a)))
            /\ VEq(backend, res.val, VNeg(backend, VCross(backend, b, a)))

C15_Witness ==
    /\ op = "cross"
    /\ backend = "x86"
    /\ va = FV(1, 0, 0, 0)
    /\ vb = FV(0, 1, 0, 0)
    /\ LanesOf(backend, res.val) = FV(0, 0, 1, 0)

\* C16: Vector::adj_add(lhs, rhs) == (lhs.x + lhs.y, lhs.z + lhs.w,
\* rhs.x + rhs.y, rhs.z + rhs.w) and Vector::adj_sub(lhs, rhs) likewise with
\* differences, in every backend that defines them (scalar and wasm), also
\* when lhs differs from rhs.
C16_AdjAddSubCombineAdjacentLanes ==
    /\ op = "adj_add" =>
          LanesOf(backend, res.val) = << FAdd(va[1], va[2]), FAdd(va[3], va[4]),
                                         FAdd(vb[1], vb[2]), FAdd(vb[3], vb[4]) >>
    /\ op = "adj_sub" =>
          LanesOf(backend, res.val) = << FSub(va[1], va[2]), FSub(va[3], va[4]),
                                         FSub(vb[1], vb[2]), FSub(vb[3], vb[4]) >>

\* C17: Vector::add_sub(lhs, rhs) == (lhs.x - rhs.x, lhs.y + rhs.y,
\* lhs.z - rhs.z, lhs.w + rhs.w), subtracting in the even lanes and adding in
\* the odd lanes, and the wasm backend returns the same Vector as the scalar
\* backend for every pair of operands.
C17_AddSubAlternates ==
    op = "add_sub" =>
        /\ LanesOf(backend, res.val) = << FSub(va[1], vb[1]), FAdd(va[2], vb[2]),
                                           FSub(va[3], vb[3]), FAdd(va[4], vb[4]) >>
        /\ LanesOf("wasm", AddSub("wasm", VNew("wasm", va[1], va[2], va[3], va[4]),
                                           VNew("wasm", vb[1], vb[2], vb[3], vb[4])))
              = LanesOf("scalar", AddSub("scalar", VNew("scalar", va[1], va[2], va[3], va[4]),
                                                   VNew("scalar", vb[1], vb[2], vb[3], vb[4])))

----------------------------------------------------------------------------
(* claims about Transform *)

\* C18: every Transform reachable from identity(), translate(d), scale(s) with
\* s.x, s.y, s.z nonzero and rotate(r) with r a unit quaternion, by `*` and
\* inverse(), satisfies matrix * inverse == Matrix::identity().
C18_MatrixTimesInverseIsIdentity ==
    /\ ValuesOf(backend, MatMul(backend, ta.matrix, ta.inverse)) = IdentityValues
    /\ ValuesOf(backend, MatMul(backend, tb.matrix, tb.inverse)) = IdentityValues

C18_Witness ==
    /\ op = "inverse"
    /\ depth = 2
    /\ ValuesOf(backend, ta.matrix)[4] # FV(0, 0, 0, 1)
    /\ ValuesOf(backend, ta.matrix)[1][3] = <<24, 25>>
    /\ ValuesOf(backend, MatMul(backend, ta.matrix, ta.inverse)) = IdentityValues

\* C19: for Transforms A and B, (A * B).matrix == A.matrix * B.matrix and
\* (A * B).inverse == B.inverse * A.inverse; A.inverse() only swaps the two
\* stored halves, so A.inverse().inverse() has the halves of A and
\* (A * B).inverse() has the halves of B.inverse() * A.inverse().
C19_MulComposesInverseSwaps ==
    LET ab == Transform_mul(backend, ta, tb)
    IN  /\ ValuesOf(backend, ab.matrix)
              = Product(ValuesOf(backend, ta.matrix), ValuesOf(backend, tb.matrix))
        /\ ValuesOf(backend, ab.inverse)
              = Product(ValuesOf(backend, tb.inverse), ValuesOf(backend, ta.inverse))
        /\ Transform_inverse(ta).matrix = ta.inverse
        /\ Transform_inverse(ta).inverse = ta.matrix
        /\ Transform_inverse(Transform_inverse(ta)) = ta
        /\ Transform_inverse(ab)
              = Transform_mul(backend, Transform_inverse(tb), Transform_inverse(ta))

C19_Witness ==
    /\ op = "mul"
    /\ depth = 2
    /\ ta.matrix # ta.inverse
    /\ tb.matrix # tb.inverse
    /\ MatMul(backend, ta.matrix, tb.matrix) # MatMul(backend, tb.matrix, ta.matrix)
    /\ Transform_inverse(Transform_inverse(ta)) = ta
    /\ Transform_inverse(Transform_mul(backend, ta, tb))
          = Transform_mul(backend, Transform_inverse(tb), Transform_inverse(ta))

\* C20: translation moves Points and leaves Directions alone: for a Vector p
\* with w == 1, p * translate(d).matrix == p + d and
\* p * translate(d).inverse().matrix == p - d, with w still 1; for a Vector v
\* with w == 0, v * translate(d).matrix == v.
C20_TranslationMovesPointsOnly ==
    /\ (op = "translate_apply" /\ va[4] = F(1)) =>
          LanesOf(backend, res.val)
              = <<FAdd(va[1], vb[1]), FAdd(va[2], vb[2]), FAdd(va[3], vb[3]), F(1)>>
    /\ (op = "translate_inverse_apply" /\ va[4] = F(1)) =>
          LanesOf(backend, res.val)
              = <<FSub(va[1], vb[1]), FSub(va[2], vb[2]), FSub(va[3], vb[3]), F(1)>>
    /\ (op = "translate_apply" /\ va[4] = F(0)) => LanesOf(backend, res.val) = va

C20_Witness ==
    /\ op = "translate_inverse_apply"
    /\ backend = "x86"
    /\ va = FV(0, 0, 0, 1)
    /\ vb = FV(5, 5, 5, 0)
    /\ LanesOf(backend, res.val) = FV(-5, -5, -5, 1)

----------------------------------------------------------------------------
(* claims about Quaternion::default and Quaternion::slerp *)

\* C21: Quaternion::default() is (0, 0, 0, 1) and a two-sided identity of
\* quaternion multiplication: q * default() and default() * q both have the
\* lanes of q, for every Quaternion q.
C21_DefaultIsTwoSidedIdentity ==
    /\ LanesOf(backend, Quaternion_default(backend)) = FV(0, 0, 0, 1)
    /\ op \in {"quat_mul_default", "default_mul_quat"} => LanesOf(backend, res.val) = qa

\* the squared length of the lanes q, and its distance from 1
SquaredLength(q) ==
    FAdd(FAdd(FAdd(FMul(q[1], q[1]), FMul(q[2], q[2])), FMul(q[3], q[3])), FMul(q[4], q[4]))

OffUnit(q) ==
    \/ FAbs(FSub(SquaredLength(q), F(1))) = <<1, 10000>>
    \/ FGt(FAbs(FSub(SquaredLength(q), F(1))), <<1, 10000>>)

IsUnit(q) == SquaredLength(q) = F(1)

\* C22: in a build with debug assertions, slerp(from, to, t) fails fatally
\* exactly when the squared length of from or of to differs from 1 by 1/10000
\* or more; it returns a value when both are strictly within 1/10000 of 1, and
\* a failed call returns no value.
C22_SlerpRejectsNonUnitOperands ==
    (op = "slerp" /\ debug_assertions) =>
        /\ (OffUnit(qa) \/ OffUnit(qb)) => res = Panic
        /\ ~(OffUnit(qa) \/ OffUnit(qb)) => res.status = "ok" /\ Len(res.val) = 4

C22_Witness ==
    /\ op = "slerp"
    /\ debug_assertions
    /\ res.status = "ok"
    /\ SquaredLength(qa) = <<10200, 10201>>
    /\ qb = FV(0, 0, 0, 1)

\* C23: for every unit Quaternion q and every t, slerp(q, q, t) has the lanes
\* of q.
C23_SlerpOfEqualEndpointsIsEndpoint ==
    (op = "slerp" /\ IsUnit(qa) /\ qb = qa) =>
        res.status = "ok" /\ LanesOf(backend, res.val) = qa

C23_Witness ==
    /\ op = "slerp"
    /\ qb = qa
    /\ qa = << <<4, 9>>, <<7, 15>>, <<28, 45>>, <<4, 9>> >>
    /\ factor = <<1, 2>>
    /\ LanesOf(backend, res.val) = qa

\* C24: for all unit Quaternions q and q2, q2 == -q included, slerp(q, q2, 0)
\* has the lanes of q, slerp(q, q2, 1) has the lanes of q2, and no lane of
\* slerp(q, q2, t) is NaN.
C24_SlerpReachesEndpoints ==
    (op = "slerp" /\ IsUnit(qa) /\ IsUnit(qb)) =>
        /\ res.status = "ok"
        /\ factor = F(0) => LanesOf(backend, res.val) = qa
        /\ factor = F(1) => LanesOf(backend, res.val) = qb
        /\ \A i \in 1..4 : LanesOf(backend, res.val)[i] # NaN

----------------------------------------------------------------------------
(* claims about Point and Normal *)

\* C25: every Point produced by a sequence of + Direction, - Direction,
\* set_x/set_y/set_z, shuffle, lerp, transform_to and transform_from applied to
\* Point::new or Point::default has w == 1.
C25_PointKeepsWOne ==
    VW(backend, va) = F(1)

\* lane j of the row vector n times the transpose of the matrix values m
TimesTranspose(n, m, j) ==
    FAdd(FAdd(FAdd(FMul(n[1], m[j][1]), FMul(n[2], m[j][2])), FMul(n[3], m[j][3])),
         FMul(n[4], m[j][4]))

\* C26: every Normal produced by a sequence of +, -, negation, scalar * and /,
\* in_hemisphere and * Transform applied to Normal::new has w == 0, and the
\* x, y, z lanes of n * T are those of n multiplied by the transpose of
\* T.inverse.
C26_NormalKeepsWZero ==
    /\ VW(backend, va) = F(0)
    /\ op = "mul_transform" =>
          \A j \in 1..3 :
              LanesOf(backend, va)[j]
                  = TimesTranspose(LanesOf(backend, vb), ValuesOf(backend, tb.inverse), j)

----------------------------------------------------------------------------
(* claims about singular matrices, spherical coordinates, the column-major
   revision of Matrix, and Vector * Matrix *)

\* C27: Matrix::inverse() of a matrix whose determinant is exactly zero does
\* not fail: it returns a Matrix, and every lane of it is infinite or NaN.
C27_SingularInverseIsNotFinite ==
    (op = "inverse" /\ CofactorDet(ma) = F(0)) =>
        /\ res.status = "ok"
        /\ Len(res.val) = 4
        /\ \A i \in 1..4, j \in 1..4 : ValuesOf(backend, res.val)[i][j][2] = 0

C27_Witness ==
    /\ op = "inverse"
    /\ ma = TestMatrix
    /\ CofactorDet(ma) = F(0)
    /\ \E i \in 1..4, j \in 1..4 : ValuesOf(backend, res.val)[i][j] \in {<<1, 0>>, <<-1, 0>>}

\* the basis of CoordinateSystem::identity() as held in ma
IdentityBasis == <<FV(1, 0, 0, 0), FV(0, 1, 0, 0), FV(0, 0, 1, 0), FV(0, 0, 0, 0)>>

\* C28: when sin^2 + cos^2 == 1, Direction::spherical(sin, cos, phi) and
\* CoordinateSystem::identity().from_spherical(sin, cos, phi) return a
\* Direction of length 1 for every azimuth phi, and the two return the same
\* Direction.
C28_SphericalIsUnit ==
    /\ (op = "spherical" /\ FAdd(FMul(va[1], va[1]), FMul(va[2], va[2])) = F(1)) =>
          SquaredLength(LanesOf(backend, res.val)) = F(1)
    /\ (op = "from_spherical" /\ ma = IdentityBasis
           /\ FAdd(FMul(va[1], va[1]), FMul(va[2], va[2])) = F(1)) =>
          /\ SquaredLength(LanesOf(backend, res.val)) = F(1)
          /\ res.val = Direction_spherical(backend, va[1], va[2], <<va[3], va[4]>>)

----------------------------------------------------------------------------
(* claims about the two Matrix revisions *)

\* the values of a column-major Matrix read back through get_row(i).get(j)
ColumnMajorValuesOf(be, m) ==
    [i \in 1..4 |-> [j \in 1..4 |->
        Get(be, ColumnMajor_get_row(be, m, i - 1).val, j - 1).val]]

\* a result of get_row or get_column: the lanes of the Vector, or the panic
AccessOutcome(be, r) == IF r.status = "ok" THEN Ok(LanesOf(be, r.val)) ELSE r

\* C29: the column-major Matrix (matrix.rs) and the row-major Matrix
\* (base/matrix.rs) built from the same value arrays a and b give the same
\* product read back through get_row, and that product is the standard
\* product a*b; their transposes, rows and columns agree too.
C29_LayoutsAgree ==
    /\ op = "layout_mul" =>
          /\ ColumnMajorValuesOf(backend, res.val[1]) = ValuesOf(backend, res.val[2])
          /\ ColumnMajorValuesOf(backend, res.val[1]) = Product(ma, mb)
    /\ op = "layout_transpose" =>
          ColumnMajorValuesOf(backend, res.val[1]) = ValuesOf(backend, res.val[2])
    /\ op \in {"layout_get_row", "layout_get_column"} =>
          AccessOutcome(backend, res.val[1]) = AccessOutcome(backend, res.val[2])

----------------------------------------------------------------------------
(* claims about Vector * Matrix *)

\* lane j of the row vector v times the value array a, j in 1..4
RowProductLane(v, a, j) ==
    FAdd(FAdd(FMul(v[1], a[1][j]), FMul(v[2], a[2][j])),
         FAdd(FMul(v[3], a[3][j]), FMul(v[4], a[4][j])))

RowProduct(v, a) == [j \in 1..4 |-> RowProductLane(v, a, j)]

\* C30: Vector * Matrix is the row-vector product: lane j of v * A is the
\* sum over k of v[k] * A[k][j]; row i of A * B equals A.get_row(i) * B; and
\* (v * A) * B equals v * (A * B).
C30_VectorTimesMatrixIsRowProduct ==
    /\ op = "vec_mul_matrix" => LanesOf(backend, res.val) = RowProduct(va, ma)
    /\ op = "row_mul_matrix" =>
          /\ LanesOf(backend, res.val[1]) = LanesOf(backend, res.val[2])
          /\ LanesOf(backend, res.val[1]) = RowProduct(ma[idx + 1], mb)
    /\ op = "vec_mul_twice" =>
          /\ LanesOf(backend, res.val[1]) = LanesOf(backend, res.val[2])
          /\ LanesOf(backend, res.val[1]) = RowProduct(RowProduct(va, ma), mb)

\* the test multiply of base/vector/mod.rs: (1, 2, 3, 4) times the test matrix
C30_Witness ==
    /\ op = "vec_mul_matrix"
    /\ va = FV(1, 2, 3, 4)
    /\ ma = TestMatrix
    /\ LanesOf(backend, res.val) = FV(90, 100, 110, 120)

====
